---- MODULE Spec2Model ----
(***************************************************************************)
(* A model of the knowledge-graph viewer's logic: the attribute-text       *)
(* parser (parseDotData, parseAttributes and the three line patterns) and  *)
(* the relation classifier (getEdgeColor).                                 *)
(*                                                                         *)
(* Text is modelled character by character: a JavaScript string is a       *)
(* sequence of one-character strings.  An ASCII character stands for       *)
(* itself; a Cyrillic letter is written "~" followed by its Latin           *)
(* transliteration ("~p" is CYRILLIC SMALL LETTER PE, "~P" the capital).   *)
(*                                                                         *)
(* A JavaScript value is a record [t, s, m, e]:                            *)
(*   t = "str"   the string s                                              *)
(*   t = "num"   the finite number m * 10^(-e), e minimal                  *)
(*   t = "undef" undefined                                                 *)
(* A JavaScript object is a function from its keys (strings) to values.    *)
(***************************************************************************)
EXTENDS Integers, Sequences, FiniteSets, TLC

VARIABLES
    pc,                 \* "lines": inside lines.forEach; "returned": parseDotData returned
    input,              \* the statements whose lines forEach has consumed, in order
    nodes,              \* the Map `nodes`: a sequence of entries [key, val] in insertion order
    links,              \* the array `links`
    currentNodeStyle,   \* the object `currentNodeStyle`
    graph,              \* the returned GraphData {nodes, links}
    label,              \* the argument of the latest getEdgeColor call
    color,              \* what that call returned
    attrArg,            \* the argument attrString of the latest parseAttributes call
    attrResult,         \* what that call returned
    measured,           \* the nodes handed to getSizeForNode
    sizes,              \* what getSizeForNode returned for each of them
    data,               \* the canvas's prop `data`: its nodes
    viewport,           \* clientWidth and clientHeight of the container
    layout,             \* the canvas's prop `layout`
    forces,             \* the simulation's named forces
    alpha,              \* the simulation's alpha, in tenths
    alphaTarget,        \* the simulation's alpha target, in tenths
    timer,              \* whether the simulation's timer runs
    position,           \* x, y, fx, fy of each node of the simulation
    gestures,           \* the drag gestures in progress: the node each one holds
    switchedFrom,       \* the layout a switch has just replaced; "none" after any other step
    appGraphData,       \* the graph App hands to the canvas and the side panel
    mounted,            \* whether the canvas's effects have run (window.graphNodes is set)
    selectedNodeId,     \* App's state selectedNodeId
    isVisible,          \* the side panel's state isVisible
    neighbors,          \* the side panel's connection list, as last rendered
    highlightedNodes,   \* highlightedNodesRef.current of the canvas
    lastEvent           \* the latest user event: "click" is a click on a node of the graph

vars ==
    <<pc, input, nodes, links, currentNodeStyle, graph, label, color,
      attrArg, attrResult, measured, sizes,
      data, viewport, layout, forces, alpha, alphaTarget, timer, position, gestures,
      switchedFrom,
      appGraphData, mounted, selectedNodeId, isVisible, neighbors, highlightedNodes, lastEvent>>

parseVars == <<pc, input, nodes, links, currentNodeStyle, graph>>

colorVars == <<label, color>>

attrVars == <<attrArg, attrResult>>

sizeVars == <<measured, sizes>>

canvasVars ==
    <<data, viewport, layout, forces, alpha, alphaTarget, timer, position, gestures,
      switchedFrom>>

panelVars ==
    <<appGraphData, mounted, selectedNodeId, isVisible, neighbors, highlightedNodes, lastEvent>>

\* the variables of a part of the program that is not running
ParserIdle ==
    /\ pc = "idle"
    /\ input = <<>>
    /\ nodes = <<>>
    /\ links = <<>>
    /\ currentNodeStyle = <<>>
    /\ graph = <<>>

ColorIdle == label = <<>> /\ color = "none"

AttrIdle == attrArg = <<>> /\ attrResult = <<>>

SizeIdle == measured = <<>> /\ sizes = <<>>

PanelIdle ==
    /\ appGraphData = <<>>
    /\ mounted = FALSE
    /\ selectedNodeId = <<>>
    /\ isVisible = FALSE
    /\ neighbors = <<>>
    /\ highlightedNodes = {}
    /\ lastEvent = "none"

CanvasIdle ==
    /\ data = <<>>
    /\ viewport = <<>>
    /\ layout = "none"
    /\ forces = <<>>
    /\ alpha = 0
    /\ alphaTarget = 0
    /\ timer = FALSE
    /\ position = <<>>
    /\ gestures = <<>>
    /\ switchedFrom = "none"

(***************************************************************************)
(* Bounds of the model.                                                    *)
(***************************************************************************)
\* the longest input text explored, in lines
MaxLines == 3

\* the most fragments a classified label is assembled from
MaxFragments == 2

(***************************************************************************)
(* Strings.                                                                *)
(***************************************************************************)
Min(S) == CHOOSE x \in S : \A y \in S : x <= y

Max(S) == CHOOSE x \in S : \A y \in S : x >= y

\* the characters \s matches and trim() removes, among those the model uses
WhiteSpace == {" ", "\t"}

Digits == <<"0", "1", "2", "3", "4", "5", "6", "7", "8", "9">>

IsDigit(c) == \E d \in 1..10 : Digits[d] = c

DigitVal(c) == (CHOOSE d \in 1..10 : Digits[d] = c) - 1

\* p occurs in s starting at index i
OccursAt(s, p, i) ==
    /\ i >= 1
    /\ i + Len(p) - 1 <= Len(s)
    /\ SubSeq(s, i, i + Len(p) - 1) = p

\* String.prototype.includes
includes(s, k) == \E i \in 1..(Len(s) - Len(k) + 1) : OccursAt(s, k, i)

\* String.prototype.startsWith
startsWith(s, p) == OccursAt(s, p, 1)

\* String.prototype.trim
trim(s) ==
    LET keep == {i \in 1..Len(s) : s[i] \notin WhiteSpace}
    IN  IF keep = {} THEN <<>> ELSE SubSeq(s, Min(keep), Max(keep))

\* the first index >= i of s that holds no white space (Len(s) + 1 when none):
\* where a greedy \s* started at i stops
RECURSIVE SkipWs(_, _)
SkipWs(s, i) ==
    IF i > Len(s) \/ s[i] \notin WhiteSpace THEN i ELSE SkipWs(s, i + 1)

UpperCase ==
    <<"A", "B", "C", "D", "E", "F", "G", "H", "I", "J", "K", "L", "M",
      "N", "O", "P", "Q", "R", "S", "T", "U", "V", "W", "X", "Y", "Z",
      "~A", "~B", "~V", "~G", "~D", "~E", "~YO", "~ZH", "~Z", "~I", "~J",
      "~K", "~L", "~M", "~N", "~O", "~P", "~R", "~S", "~T", "~U", "~F",
      "~H", "~C", "~CH", "~SH", "~SCH", "~HARD", "~Y", "~SOFT", "~EH",
      "~YU", "~YA">>

LowerCase ==
    <<"a", "b", "c", "d", "e", "f", "g", "h", "i", "j", "k", "l", "m",
      "n", "o", "p", "q", "r", "s", "t", "u", "v", "w", "x", "y", "z",
      "~a", "~b", "~v", "~g", "~d", "~e", "~yo", "~zh", "~z", "~i", "~j",
      "~k", "~l", "~m", "~n", "~o", "~p", "~r", "~s", "~t", "~u", "~f",
      "~h", "~c", "~ch", "~sh", "~sch", "~hard", "~y", "~soft", "~eh",
      "~yu", "~ya">>

\* String.prototype.toLowerCase
toLowerCase(s) ==
    [i \in 1..Len(s) |->
        IF \E u \in 1..Len(UpperCase) : UpperCase[u] = s[i]
        THEN LowerCase[CHOOSE u \in 1..Len(UpperCase) : UpperCase[u] = s[i]]
        ELSE s[i]]

(***************************************************************************)
(* JavaScript values and objects.                                          *)
(***************************************************************************)
Str(s) == [t |-> "str", s |-> s, m |-> 0, e |-> 0]

Num(m, e) == [t |-> "num", s |-> <<>>, m |-> m, e |-> e]

Undefined == [t |-> "undef", s |-> <<>>, m |-> 0, e |-> 0]

NaN == [t |-> "nan", s |-> <<>>, m |-> 0, e |-> 0]

isNaN(v) == v.t = "nan"

\* ToBoolean: "", 0, NaN and undefined are falsy
Truthy(v) ==
    CASE v.t = "str" -> v.s # <<>>
      [] v.t = "num" -> v.m # 0
      [] OTHER -> FALSE

EmptyObject == [k \in {} |-> Undefined]

\* the object spread {...a, ...b}: b's keys win
Spread(a, b) ==
    [k \in (DOMAIN a) \cup (DOMAIN b) |-> IF k \in DOMAIN b THEN b[k] ELSE a[k]]

\* a property read: undefined for a key the object lacks
Get(o, k) == IF k \in DOMAIN o THEN o[k] ELSE Undefined

RECURSIVE Pow10(_)
Pow10(n) == IF n = 0 THEN 1 ELSE 10 * Pow10(n - 1)

RECURSIVE DigitsToNat(_)
DigitsToNat(ds) ==
    IF ds = <<>> THEN 0
    ELSE 10 * DigitsToNat(SubSeq(ds, 1, Len(ds) - 1)) + DigitVal(ds[Len(ds)])

RECURSIVE NatToDigits(_)
NatToDigits(n) ==
    IF n < 10 THEN <<Digits[n + 1]>>
    ELSE Append(NatToDigits(n \div 10), Digits[(n % 10) + 1])

\* m * 10^(-e) with the fraction's trailing zeros removed
RECURSIVE Normalise(_, _)
Normalise(m, e) ==
    IF e > 0 /\ m % 10 = 0 THEN Normalise(m \div 10, e - 1) ELSE Num(m, e)

\* the length of the run of digits of s that starts at index i
RECURSIVE DigitRun(_, _)
DigitRun(s, i) ==
    IF i > Len(s) \/ ~IsDigit(s[i]) THEN 0 ELSE 1 + DigitRun(s, i + 1)

\* parseFloat, for decimal literals without exponent (and not "Infinity"):
\* the longest prefix  ws* [+-] digits [. digits]  or  ws* [+-] . digits
parseFloat(s) ==
    LET b    == SkipWs(s, 1)
        neg  == b <= Len(s) /\ s[b] = "-"
        i    == IF b <= Len(s) /\ s[b] \in {"+", "-"} THEN b + 1 ELSE b
        n1   == DigitRun(s, i)
        dot  == i + n1 <= Len(s) /\ s[i + n1] = "."
        n2   == IF dot THEN DigitRun(s, i + n1 + 1) ELSE 0
        int  == SubSeq(s, i, i + n1 - 1)
        frac == SubSeq(s, i + n1 + 1, i + n1 + n2)
        mag  == Normalise(DigitsToNat(int \o frac), n2)
    IN  IF n1 = 0 /\ n2 = 0 THEN NaN
        ELSE IF neg THEN Num(0 - mag.m, mag.e) ELSE mag

\* Number::toString for the numbers above (no exponent form in this range)
NumberToString(v) ==
    LET a    == IF v.m < 0 THEN 0 - v.m ELSE v.m
        int  == NatToDigits(a \div Pow10(v.e))
        f    == NatToDigits(a % Pow10(v.e))
        frac == [i \in 1..v.e |-> IF i <= v.e - Len(f) THEN "0" ELSE f[i - (v.e - Len(f))]]
    IN  (IF v.m < 0 THEN <<"-">> ELSE <<>>)
        \o int
        \o (IF v.e > 0 THEN <<".">> \o frac ELSE <<>>)

\* String(v)
String(v) ==
    CASE v.t = "str" -> v.s
      [] v.t = "num" -> NumberToString(v)
      [] v.t = "nan" -> <<"N", "a", "N">>
      [] OTHER -> <<"u", "n", "d", "e", "f", "i", "n", "e", "d">>

(***************************************************************************)
(* parseAttributes.                                                        *)
(***************************************************************************)
Quote == "\""

\* ATTR_SPLIT_REGEX matches at index i of s: a comma, the white space after it,
\* and then a rest of the string that holds an even number of quotes
AttrSplitAt(s, i) ==
    /\ s[i] = ","
    /\ Cardinality({j \in (i + 1)..Len(s) : s[j] = Quote}) % 2 = 0

\* attrString.split(ATTR_SPLIT_REGEX), from index `from` on
RECURSIVE SplitAttrs(_, _)
SplitAttrs(s, from) ==
    LET seps == {i \in from..Len(s) : AttrSplitAt(s, i)}
    IN  IF seps = {} THEN <<SubSeq(s, from, Len(s))>>
        ELSE <<SubSeq(s, from, Min(seps) - 1)>>
             \o SplitAttrs(s, SkipWs(s, Min(seps) + 1))

\* part.split('=').map(s => s.trim()), destructured as [key, value]:
\* the text before the first '=', and the text between the first '=' and the
\* second (or the end); value is undefined when the part holds no '='
SplitPair(part) ==
    LET eqs   == {i \in 1..Len(part) : part[i] = "="}
        first == Min(eqs)
        rest  == {i \in eqs : i > first}
        stop  == IF rest = {} THEN Len(part) + 1 ELSE Min(rest)
    IN  IF eqs = {}
        THEN [key |-> Str(trim(part)), value |-> Undefined]
        ELSE [key   |-> Str(trim(SubSeq(part, 1, first - 1))),
              value |-> Str(trim(SubSeq(part, first + 1, stop - 1)))]

\* value.replace(/^"(.*)"$/, '$1')
StripQuotes(v) ==
    IF Len(v) >= 2 /\ v[1] = Quote /\ v[Len(v)] = Quote
    THEN SubSeq(v, 2, Len(v) - 1)
    ELSE v

\* the number when the text is exactly a number's serialisation, else the text
AttrValue(cleanValue) ==
    LET numValue == parseFloat(cleanValue)
    IN  IF ~isNaN(numValue) /\ String(numValue) = cleanValue
        THEN numValue
        ELSE Str(cleanValue)

\* the body of parts.forEach: attrs after one part
AssignPart(attrs, part) ==
    LET kv == SplitPair(part)
    IN  IF Truthy(kv.key) /\ Truthy(kv.value)
        THEN Spread(attrs, kv.key.s :> AttrValue(StripQuotes(kv.value.s)))
        ELSE attrs

RECURSIVE AssignParts(_, _)
AssignParts(attrs, parts) ==
    IF parts = <<>> THEN attrs
    ELSE AssignParts(AssignPart(attrs, Head(parts)), Tail(parts))

parseAttributes(attrString) ==
    IF attrString = <<>> THEN EmptyObject
    ELSE AssignParts(EmptyObject, SplitAttrs(attrString, 1))

(***************************************************************************)
(* The three line patterns.  A match is [ok, g1, g2, g3]; a group that     *)
(* took no part in the match is undefined.                                 *)
(***************************************************************************)
NoMatch == [ok |-> FALSE, g1 |-> Undefined, g2 |-> Undefined, g3 |-> Undefined]

\* NODE_ATTR_REGEX = /node\s*\[(.*?)\];/ : the leftmost "node", white space,
\* "[", and the shortest text that "];" follows
NodeAttrOpen(line, p) == SkipWs(line, p + 4)

NodeAttrCloses(line, p) ==
    {r \in (NodeAttrOpen(line, p) + 1)..(Len(line) - 1) :
        line[r] = "]" /\ line[r + 1] = ";"}

NodeAttrMatch(line) ==
    LET starts == {p \in 1..Len(line) :
                    /\ OccursAt(line, <<"n", "o", "d", "e">>, p)
                    /\ NodeAttrOpen(line, p) <= Len(line)
                    /\ line[NodeAttrOpen(line, p)] = "["
                    /\ NodeAttrCloses(line, p) # {}}
        p == Min(starts)
    IN  IF starts = {} THEN NoMatch
        ELSE [ok |-> TRUE,
              g1 |-> Str(SubSeq(line, NodeAttrOpen(line, p) + 1,
                                Min(NodeAttrCloses(line, p)) - 1)),
              g2 |-> Undefined, g3 |-> Undefined]

\* the common tail  "\s*(?:\[(.*?)\])?;  of EDGE_REGEX and NODE_DEF_REGEX, tried
\* with the closing quote at index c: [ok, g] with g the bracketed text
AfterQuote(line, c) ==
    LET t      == SkipWs(line, c + 1)
        closes == {r \in (t + 1)..(Len(line) - 1) : line[r] = "]" /\ line[r + 1] = ";"}
    IN  IF c > Len(line) \/ line[c] # Quote \/ t > Len(line)
        THEN [ok |-> FALSE, g |-> Undefined]
        ELSE IF line[t] = ";"
        THEN [ok |-> TRUE, g |-> Undefined]
        ELSE IF line[t] = "[" /\ closes # {}
        THEN [ok |-> TRUE, g |-> Str(SubSeq(line, t + 1, Min(closes) - 1))]
        ELSE [ok |-> FALSE, g |-> Undefined]

\* NODE_DEF_REGEX = /"(.+?)"\s*(?:\[(.*?)\])?;/ : the leftmost opening quote and
\* the nearest closing quote after at least one character that let the tail match
NodeDefCloses(line, p) ==
    {c \in (p + 2)..Len(line) : AfterQuote(line, c).ok}

NodeDefMatch(line) ==
    LET starts == {p \in 1..Len(line) : line[p] = Quote /\ NodeDefCloses(line, p) # {}}
        p == Min(starts)
        c == Min(NodeDefCloses(line, p))
    IN  IF starts = {} THEN NoMatch
        ELSE [ok |-> TRUE,
              g1 |-> Str(SubSeq(line, p + 1, c - 1)),
              g2 |-> AfterQuote(line, c).g,
              g3 |-> Undefined]

\* EDGE_REGEX = /"(.+?)"\s*->\s*"(.+?)"\s*(?:\[(.*?)\])?;/
\* the index of the second opening quote when the first group closes at c1
\* (0 when  "\s*->\s*"  does not follow)
EdgeSecondOpen(line, c1) ==
    LET a  == SkipWs(line, c1 + 1)
        o2 == SkipWs(line, a + 2)
    IN  IF /\ line[c1] = Quote
           /\ OccursAt(line, <<"-", ">">>, a)
           /\ o2 <= Len(line)
           /\ line[o2] = Quote
        THEN o2 ELSE 0

EdgeSecondCloses(line, c1) ==
    IF EdgeSecondOpen(line, c1) = 0 THEN {}
    ELSE NodeDefCloses(line, EdgeSecondOpen(line, c1))

EdgeFirstCloses(line, p) ==
    {c1 \in (p + 2)..Len(line) : EdgeSecondCloses(line, c1) # {}}

EdgeMatch(line) ==
    LET starts == {p \in 1..Len(line) : line[p] = Quote /\ EdgeFirstCloses(line, p) # {}}
        p  == Min(starts)
        c1 == Min(EdgeFirstCloses(line, p))
        o2 == EdgeSecondOpen(line, c1)
        c2 == Min(EdgeSecondCloses(line, c1))
    IN  IF starts = {} THEN NoMatch
        ELSE [ok |-> TRUE,
              g1 |-> Str(SubSeq(line, p + 1, c1 - 1)),
              g2 |-> Str(SubSeq(line, o2 + 1, c2 - 1)),
              g3 |-> AfterQuote(line, c2).g]

(***************************************************************************)
(* The input text.  DOT_DATA is split into lines; the model draws each     *)
(* line from a corpus of statements of the description grammar, written    *)
(* out character by character by Render.                                   *)
(* A statement is [kind, a, b, attrs, text]: a style directive             *)
(* `node [attrs];`, a node declaration `"a" [attrs];`, an edge             *)
(* `"a" -> "b" [attrs];`, or a raw line given by its text.  attrs is a      *)
(* sequence of pairs [k, v, q]: key, value text, and whether the value is  *)
(* written in quotes.                                                      *)
(***************************************************************************)
kId == <<"i", "d">>

kLabel == <<"l", "a", "b", "e", "l">>

kColor == <<"c", "o", "l", "o", "r">>

kFillcolor == <<"f", "i", "l", "l", "c", "o", "l", "o", "r">>

kWidth == <<"w", "i", "d", "t", "h">>

kFontname == <<"f", "o", "n", "t", "n", "a", "m", "e">>

kShape == <<"s", "h", "a", "p", "e">>

kStyle == <<"s", "t", "y", "l", "e">>

kFontsize == <<"f", "o", "n", "t", "s", "i", "z", "e">>

kHeight == <<"h", "e", "i", "g", "h", "t">>

idX == <<"X">>

idY == <<"Y">>

\* the identifier  q\"  (a letter and an escaped quote)
idQ == <<"q", "\\", "\"">>

tRed == <<"r", "e", "d">>

tBlue == <<"b", "l", "u", "e">>

tWhite == <<"w", "h", "i", "t", "e">>

\* a value with a comma inside its quotes
tLightBlue == <<"l", "i", "g", "h", "t", ",", " ", "b", "l", "u", "e">>

\* the relation label "prichina" (cause), in Cyrillic
tPrichina == <<"~p", "~r", "~i", "~ch", "~i", "~n", "~a">>

\* a value with an equals sign inside its quotes
tAEqualsB == <<"a", "=", "b">>

Pair(k, v, q) == [k |-> k, v |-> v, q |-> q]

StyleStmt(attrs) == [kind |-> "style", a |-> <<>>, b |-> <<>>, attrs |-> attrs, text |-> <<>>]

NodeStmt(a, attrs) == [kind |-> "node", a |-> a, b |-> <<>>, attrs |-> attrs, text |-> <<>>]

EdgeStmt(a, b, attrs) == [kind |-> "edge", a |-> a, b |-> b, attrs |-> attrs, text |-> <<>>]

RawStmt(text) == [kind |-> "raw", a |-> <<>>, b |-> <<>>, attrs |-> <<>>, text |-> text]

Statements ==
    << StyleStmt(<<Pair(kFillcolor, tWhite, FALSE)>>),
       StyleStmt(<<Pair(kColor, tRed, FALSE)>>),
       StyleStmt(<<Pair(kColor, tBlue, FALSE)>>),
       StyleStmt(<<Pair(kWidth, <<"2">>, FALSE), Pair(kWidth, <<"4">>, FALSE)>>),
       StyleStmt(<<Pair(kId, idY, FALSE)>>),
       NodeStmt(idX, <<>>),
       NodeStmt(idY, <<>>),
       NodeStmt(idX, <<Pair(kFillcolor, tLightBlue, TRUE), Pair(kWidth, <<"4">>, FALSE)>>),
       NodeStmt(idQ, <<>>),
       NodeStmt(idX, <<Pair(kLabel, <<"a", "-", ">", "b">>, TRUE)>>),
       EdgeStmt(idX, idY, <<>>),
       EdgeStmt(idX, idY, <<Pair(kLabel, tPrichina, TRUE)>>),
       EdgeStmt(idY, idX, <<Pair(kLabel, <<"4">>, FALSE)>>),
       RawStmt(<<>>),
       RawStmt(<<"/", "/", " ", "\"", "X", "\"", ";">>),
       RawStmt(<<"d", "i", "g", "r", "a", "p", "h", " ", "G", " ", "{">>),
       RawStmt(<<"}">>),
       RawStmt(<<"r", "a", "n", "k", "d", "i", "r", "=", "L", "R", ";">>),
       StyleStmt(<<Pair(kFontname, tAEqualsB, TRUE)>>),
       EdgeStmt(idX, idY, <<Pair(kLabel, tAEqualsB, TRUE)>>) >>

RenderPair(p) ==
    p.k \o <<"=">> \o (IF p.q THEN <<Quote>> \o p.v \o <<Quote>> ELSE p.v)

RECURSIVE RenderPairs(_)
RenderPairs(ps) ==
    IF ps = <<>> THEN <<>>
    ELSE IF Len(ps) = 1 THEN RenderPair(ps[1])
    ELSE RenderPair(ps[1]) \o <<",", " ">> \o RenderPairs(Tail(ps))

RenderBlock(ps) ==
    IF ps = <<>> THEN <<>> ELSE <<" ", "[">> \o RenderPairs(ps) \o <<"]">>

\* the line of a statement, indented as the lines of a graph body are
Render(st) ==
    CASE st.kind = "style" ->
            <<" ", " ", "n", "o", "d", "e">> \o RenderBlock(st.attrs) \o <<";">>
      [] st.kind = "node" ->
            <<" ", " ", Quote>> \o st.a \o <<Quote>> \o RenderBlock(st.attrs) \o <<";">>
      [] st.kind = "edge" ->
            <<" ", " ", Quote>> \o st.a \o <<Quote, " ", "-", ">", " ", Quote>> \o st.b
                \o <<Quote>> \o RenderBlock(st.attrs) \o <<";">>
      [] OTHER -> st.text

Lines == [i \in 1..Len(Statements) |-> Render(Statements[i])]

\* the index of a statement in the corpus
StmtIndex(st) == CHOOSE i \in 1..Len(Statements) : Statements[i] = st

\* the worked examples of the specification, as texts (statement indices):
\*   node [color=red]; "X"; node [color=blue]; "Y";
\*   node [fillcolor=white]; "X"; "Y"; "X" -> "Y" [label="prichina"];
StyleOrderExample ==
    << StmtIndex(StyleStmt(<<Pair(kColor, tRed, FALSE)>>)),
       StmtIndex(NodeStmt(idX, <<>>)),
       StmtIndex(StyleStmt(<<Pair(kColor, tBlue, FALSE)>>)),
       StmtIndex(NodeStmt(idY, <<>>)) >>

EndToEndExample ==
    << StmtIndex(StyleStmt(<<Pair(kFillcolor, tWhite, FALSE)>>)),
       StmtIndex(NodeStmt(idX, <<>>)),
       StmtIndex(NodeStmt(idY, <<>>)),
       StmtIndex(EdgeStmt(idX, idY, <<Pair(kLabel, tPrichina, TRUE)>>)) >>

Examples == {StyleOrderExample, EndToEndExample}

(***************************************************************************)
(* parseDotData.                                                           *)
(***************************************************************************)
\* Map.prototype.has / get / set / values, on a Map kept as its entries in
\* insertion order
MapHas(m, k) == \E i \in 1..Len(m) : m[i].key = k

MapGet(m, k) == m[CHOOSE i \in 1..Len(m) : m[i].key = k].val

MapSet(m, k, v) ==
    IF MapHas(m, k)
    THEN [i \in 1..Len(m) |-> IF m[i].key = k THEN [key |-> k, val |-> v] ELSE m[i]]
    ELSE Append(m, [key |-> k, val |-> v])

MapValues(m) == [i \in 1..Len(m) |-> m[i].val]

\* the initial currentNodeStyle
SeedStyle ==
    (kFontname :> Str(<<"A", "r", "i", "a", "l">>))
    @@ (kShape :> Str(<<"e", "l", "l", "i", "p", "s", "e">>))
    @@ (kStyle :> Str(<<"f", "i", "l", "l", "e", "d">>))
    @@ (kColor :> Str(<<"g", "r", "a", "y", "7", "0">>))
    @@ (kFillcolor :> Str(tWhite))
    @@ (kFontsize :> Num(60, 0))
    @@ (kWidth :> Num(1, 0))
    @@ (kHeight :> Num(7, 1))

\* id.replace(/\\"/g, '"')
RECURSIVE UnescapeQuotes(_)
UnescapeQuotes(id) ==
    IF id = <<>> THEN <<>>
    ELSE IF OccursAt(id, <<"\\", Quote>>, 1)
    THEN <<Quote>> \o UnescapeQuotes(SubSeq(id, 3, Len(id)))
    ELSE <<Head(id)>> \o UnescapeQuotes(Tail(id))

\* IsIgnoredLine with a bug: comment lines are not skipped
IsIgnoredLine_NoComment(cleanLine) ==
    \/ cleanLine = <<>>
    \/ startsWith(cleanLine, <<"d", "i", "g", "r", "a", "p", "h">>)
    \/ cleanLine = <<"}">>

\* the guard at the head of the forEach callback
IsIgnoredLine(cleanLine) ==
    \/ cleanLine = <<>>
    \/ startsWith(cleanLine, <<"/", "/">>)
    \/ startsWith(cleanLine, <<"d", "i", "g", "r", "a", "p", "h">>)
    \/ cleanLine = <<"}">>

\* { id: id, label: id, ...currentNodeStyle }
ImplicitNode(id, style) ==
    Spread((kId :> Str(id)) @@ (kLabel :> Str(id)), style)

\* ExplicitNode with a bug: the active style is not spread into the node
ExplicitNode_NoStyle(id, style, localAttrs) ==
    Spread((kId :> Str(id)) @@ (kLabel :> Str(UnescapeQuotes(id))), localAttrs)

\* { id, label: id.replace(/\\"/g, '"'), ...currentNodeStyle, ...localAttrs }
ExplicitNode(id, style, localAttrs) ==
    Spread(Spread((kId :> Str(id)) @@ (kLabel :> Str(UnescapeQuotes(id))), style),
           localAttrs)

\* EnsureNode with a bug: an endpoint already in the map is set again
EnsureNode_Overwrite(m, id, style) == MapSet(m, id, ImplicitNode(id, style))

\* nodes after `if (!nodes.has(id)) nodes.set(id, {...})`
EnsureNode(m, id, style) ==
    IF MapHas(m, id) THEN m ELSE MapSet(m, id, ImplicitNode(id, style))

\* attrs.label !== undefined ? String(attrs.label) : ''
LinkLabel(attrs) ==
    IF Get(attrs, kLabel) # Undefined THEN Str(String(Get(attrs, kLabel))) ELSE Str(<<>>)

\* Link with a bug: the label is stored as parsed, without String()
Link_RawLabel(source, target, attrs) ==
    [source |-> Str(source), target |-> Str(target),
     label |-> IF Get(attrs, kLabel) # Undefined THEN Get(attrs, kLabel) ELSE Str(<<>>)]

\* the object pushed on links
Link(source, target, attrs) ==
    [source |-> Str(source), target |-> Str(target), label |-> LinkLabel(attrs)]

\* match[n] ? parseAttributes(match[n]) : {}
OptionalAttributes(g) == IF Truthy(g) THEN parseAttributes(g.s) ELSE EmptyObject

\* the branch of the forEach callback a line takes, the match that chose it
\* and the attribute block parsed there
Dispatch(line) ==
    LET cleanLine     == trim(line)
        nodeAttrMatch == NodeAttrMatch(cleanLine)
        edgeMatch     == EdgeMatch(cleanLine)
        nodeDefMatch  == NodeDefMatch(cleanLine)
    IN  IF IsIgnoredLine(cleanLine)
        THEN [branch |-> "ignored", match |-> NoMatch, attrs |-> EmptyObject]
        ELSE IF nodeAttrMatch.ok
        THEN [branch |-> "style", match |-> nodeAttrMatch,
              attrs |-> parseAttributes(nodeAttrMatch.g1.s)]
        ELSE IF edgeMatch.ok
        THEN [branch |-> "edge", match |-> edgeMatch,
              attrs |-> OptionalAttributes(edgeMatch.g3)]
        ELSE IF nodeDefMatch.ok /\ ~includes(cleanLine, <<"-", ">">>)
        THEN [branch |-> "node", match |-> nodeDefMatch,
              attrs |-> OptionalAttributes(nodeDefMatch.g2)]
        ELSE [branch |-> "unmatched", match |-> NoMatch, attrs |-> EmptyObject]

\* Dispatch of every line of the corpus
Dispatched == [i \in 1..Len(Statements) |-> Dispatch(Lines[i])]

\* the texts explored: every text of at most MaxLines lines, and the
\* worked examples of the specification whatever their length
InScope(text) ==
    \/ Len(text) <= MaxLines
    \/ \E ex \in Examples : Len(text) <= Len(ex) /\ SubSeq(ex, 1, Len(text)) = text

\* forEach hands the callback the next line
Consume(i) ==
    /\ pc = "lines"
    /\ InScope(Append(input, i))
    /\ input' = Append(input, i)
    /\ UNCHANGED <<pc, graph, colorVars, attrVars, sizeVars, canvasVars, panelVars>>

\* the callback returns at once: blank, comment, "digraph..." and "}" lines
IgnoredLine(i) ==
    /\ Dispatched[i].branch = "ignored"
    /\ Consume(i)
    /\ UNCHANGED <<nodes, links, currentNodeStyle>>

\* StyleLine with a bug: the directive also restyles the nodes already declared
StyleLine_Retroactive(i) ==
    LET newAttrs == Dispatched[i].attrs
    IN  /\ Dispatched[i].branch = "style"
        /\ Consume(i)
        /\ currentNodeStyle' = Spread(currentNodeStyle, newAttrs)
        /\ nodes' = [j \in 1..Len(nodes) |->
                        [key |-> nodes[j].key, val |-> Spread(nodes[j].val, newAttrs)]]
        /\ UNCHANGED links

\* StyleLine with a bug: the directive replaces the style instead of merging
StyleLine_Replace(i) ==
    LET newAttrs == Dispatched[i].attrs
    IN  /\ Dispatched[i].branch = "style"
        /\ Consume(i)
        /\ currentNodeStyle' = newAttrs
        /\ UNCHANGED <<nodes, links>>

\* 1. global node style update: node [...]
StyleLine(i) ==
    LET newAttrs == Dispatched[i].attrs
    IN  /\ Dispatched[i].branch = "style"
        /\ Consume(i)
        /\ currentNodeStyle' = Spread(currentNodeStyle, newAttrs)
        /\ UNCHANGED <<nodes, links>>

\* 2. edge: "A" -> "B" [attrs]
EdgeLine(i) ==
    LET source == Dispatched[i].match.g1.s
        target == Dispatched[i].match.g2.s
        attrs  == Dispatched[i].attrs
    IN  /\ Dispatched[i].branch = "edge"
        /\ Consume(i)
        /\ nodes' = EnsureNode(EnsureNode(nodes, source, currentNodeStyle),
                               target, currentNodeStyle)
        /\ links' = Append(links, Link(source, target, attrs))
        /\ UNCHANGED currentNodeStyle

\* 3. explicit node definition: "Node"; or "Node" [attrs];
NodeLine(i) ==
    LET id         == Dispatched[i].match.g1.s
        localAttrs == Dispatched[i].attrs
    IN  /\ Dispatched[i].branch = "node"
        /\ Consume(i)
        /\ nodes' = MapSet(nodes, id, ExplicitNode(id, currentNodeStyle, localAttrs))
        /\ UNCHANGED <<links, currentNodeStyle>>

\* the callback falls through: no pattern matches, or the node pattern
\* matches a line that holds "->"
UnmatchedLine(i) ==
    /\ Dispatched[i].branch = "unmatched"
    /\ Consume(i)
    /\ UNCHANGED <<nodes, links, currentNodeStyle>>

\* forEach is over: return { nodes: Array.from(nodes.values()), links }
Return ==
    /\ pc = "lines"
    /\ pc' = "returned"
    /\ graph' = [nodes |-> MapValues(nodes), links |-> links]
    /\ UNCHANGED <<input, nodes, links, currentNodeStyle, colorVars, attrVars, sizeVars, canvasVars, panelVars>>

NoGraph == [nodes |-> <<>>, links |-> <<>>]

Init ==
    /\ pc = "lines"
    /\ input = <<>>
    /\ nodes = <<>>
    /\ links = <<>>
    /\ currentNodeStyle = SeedStyle
    /\ graph = NoGraph
    /\ label = Undefined
    /\ color = "none"
    /\ AttrIdle
    /\ SizeIdle
    /\ CanvasIdle
    /\ PanelIdle

\* one call of the forEach callback, on the line of statement i
Callback(i) ==
    \/ IgnoredLine(i)
    \/ StyleLine(i)
    \/ EdgeLine(i)
    \/ NodeLine(i)
    \/ UnmatchedLine(i)

Next ==
    \/ \E i \in 1..Len(Statements) : Callback(i)
    \/ Return

Spec == Init /\ [][Next]_vars

(***************************************************************************)
(* getEdgeColor.  The keyword lists are those of the source, letter by     *)
(* letter, in the source's order.                                          *)
(***************************************************************************)
InteractionKeywords ==
    << <<"~v", "~z", "~a", "~i", "~m", "~o", "~d", "~e", "~j", "~s", "~t", "~v", "~i", "~e">>,
       <<"~n", "~a", "~zh", "~a", "~t", "~i", "~e">>,
       <<"~i", "~s", "~p", "~o", "~l", "~soft", "~z", "~o", "~v", "~a", "~n", "~i", "~e">>,
       <<"~v", "~r", "~a", "~sch", "~e", "~n", "~i", "~e">>,
       <<"~t", "~ya", "~g", "~a">>,
       <<"~t", "~o", "~l", "~ch", "~o", "~k">>,
       <<"~u", "~p", "~r", "~a", "~v", "~l", "~e", "~n", "~i", "~e">>,
       <<"~d", "~e", "~j", "~s", "~t", "~v", "~i", "~e">>,
       <<"~v", "~k", "~l", "~yu", "~ch", "~e", "~n", "~i", "~e">>,
       <<"~z", "~a", "~p", "~u", "~s", "~k", "~a", "~n", "~i", "~e">>,
       <<"~d", "~u", "~t", "~soft">>,
       <<"~n", "~a", "~d", "~a", "~v", "~l", "~i", "~v", "~a", "~n", "~i", "~e">>,
       <<"~n", "~a", "~d", "~u", "~v", "~a", "~n", "~i", "~e">>,
       <<"~s", "~i", "~d", "~e", "~n", "~i", "~e">>,
       <<"~v", "~s", "~t", "~a", "~v", "~a", "~n", "~i", "~e">>,
       <<"~p", "~r", "~o", "~b", "~o", "~v", "~a", "~n", "~i", "~e">>,
       <<"~o", "~b", "~sch", "~e", "~n", "~i", "~e">> >>

PerceptionKeywords ==
    << <<"~n", "~a", "~b", "~l", "~yu", "~d", "~e", "~n", "~i", "~e">>,
       <<"~s", "~l", "~y", "~sh", "~a", "~n", "~i", "~e">>,
       <<"~o", "~sch", "~u", "~sch", "~e", "~n", "~i", "~e">>,
       <<"~v", "~i", "~d", "~e", "~n", "~i", "~e">>,
       <<"~v", "~n", "~i", "~m", "~a", "~n", "~i", "~e">>,
       <<"~v", "~o", "~s", "~p", "~r", "~i", "~ya", "~t", "~i", "~e">>,
       <<"~ch", "~u", "~v", "~s", "~t", "~v", "~o", "~v", "~a", "~n", "~i", "~e">>,
       <<"~r", "~a", "~s", "~s", "~m", "~a", "~t", "~r", "~i", "~v", "~a", "~n", "~i", "~e">> >>

StructureKeywords ==
    << <<"~ch", "~a", "~s", "~t", "~soft">>,
       <<"~n", "~a", "~l", "~i", "~ch", "~i", "~e">>,
       <<"~s", "~o", "~s", "~t", "~a", "~v", "~l", "~e", "~n", "~n", "~o", "~s", "~t", "~soft">>,
       <<"~r", "~a", "~s", "~p", "~o", "~l", "~o", "~zh", "~e", "~n", "~i", "~e">>,
       <<"~p", "~r", "~i", "~n", "~a", "~d", "~l", "~e", "~zh", "~n", "~o", "~s", "~t", "~soft">>,
       <<"~s", "~o", "~d", "~e", "~r", "~zh", "~a", "~n", "~i", "~e">>,
       <<"~o", "~b", "~l", "~a", "~d", "~a", "~n", "~i", "~e">>,
       <<"~v", "~h", "~o", "~zh", "~d", "~e", "~n", "~i", "~e">>,
       <<"~b", "~l", "~i", "~z", "~o", "~s", "~t", "~soft">> >>

AttributeKeywords ==
    << <<"~h", "~a", "~r", "~a", "~k", "~t", "~e", "~r", "~i", "~s", "~t", "~i", "~k", "~a">>,
       <<"~t", "~o", "~zh", "~d", "~e", "~s", "~t", "~v", "~o">>,
       <<"~p", "~r", "~i", "~m", "~e", "~r">>,
       <<"~p", "~r", "~i", "~ch", "~i", "~n", "~a">>,
       <<"~r", "~e", "~z", "~u", "~l", "~soft", "~t", "~a", "~t">>,
       <<"~s", "~v", "~o", "~j", "~s", "~t", "~v", "~o">>,
       <<"~f", "~u", "~n", "~k", "~c", "~i", "~ya">>,
       <<"~z", "~n", "~a", "~ch", "~e", "~n", "~i", "~e">>,
       <<"~u", "~s", "~l", "~o", "~v", "~i", "~e">>,
       <<"~v", "~o", "~z", "~m", "~o", "~zh", "~n", "~o", "~s", "~t", "~soft">>,
       <<"~s", "~p", "~o", "~s", "~o", "~b", "~n", "~o", "~s", "~t", "~soft">>,
       <<"~r", "~o", "~s", "~t">>,
       <<"~o", "~t", "~s", "~u", "~t", "~s", "~t", "~v", "~i", "~e">>,
       <<"~p", "~o", "~t", "~e", "~r", "~ya">> >>

CreationKeywords ==
    << <<"~s", "~o", "~z", "~d", "~a", "~n", "~i", "~e">>,
       <<"~v", "~o", "~z", "~n", "~i", "~k", "~n", "~o", "~v", "~e", "~n", "~i", "~e">>,
       <<"~o", "~b", "~r", "~a", "~z", "~o", "~v", "~a", "~n", "~i", "~e">>,
       <<"~f", "~o", "~r", "~m", "~i", "~r", "~o", "~v", "~a", "~n", "~i", "~e">>,
       <<"~p", "~o", "~ya", "~v", "~l", "~e", "~n", "~i", "~e">>,
       <<"~r", "~a", "~z", "~r", "~a", "~b", "~o", "~t", "~k", "~a">>,
       <<"~o", "~t", "~k", "~r", "~y", "~t", "~i", "~e">>,
       <<"~r", "~o", "~zh", "~d", "~e", "~n", "~i", "~e">>,
       <<"~p", "~r", "~e", "~v", "~r", "~a", "~sch", "~e", "~n", "~i", "~e">> >>

EDGE_LEGEND ==
    << [color |-> "#3b82f6", label |-> "interaction"],
       [color |-> "#a855f7", label |-> "perception"],
       [color |-> "#f97316", label |-> "structure"],
       [color |-> "#10b981", label |-> "attribute"],
       [color |-> "#ef4444", label |-> "creation"],
       [color |-> "#64748b", label |-> "other"] >>

\* [ ... ].some(k => l.includes(k))
some(keywords, l) == \E i \in 1..Len(keywords) : includes(l, keywords[i])

\* getEdgeColor with a bug: no return after the last category
getEdgeColor_NoFallback(lbl) ==
    LET l == toLowerCase(String(lbl))
    IN  IF ~Truthy(lbl) THEN "#64748b"
        ELSE IF some(InteractionKeywords, l) THEN "#3b82f6"
        ELSE IF some(PerceptionKeywords, l) THEN "#a855f7"
        ELSE IF some(StructureKeywords, l) THEN "#f97316"
        ELSE IF some(AttributeKeywords, l) THEN "#10b981"
        ELSE IF some(CreationKeywords, l) THEN "#ef4444"
        ELSE "undefined"

\* getEdgeColor with a bug: the perception keywords are tried first
getEdgeColor_PerceptionFirst(lbl) ==
    LET l == toLowerCase(String(lbl))
    IN  IF ~Truthy(lbl) THEN "#64748b"
        ELSE IF some(PerceptionKeywords, l) THEN "#a855f7"
        ELSE IF some(InteractionKeywords, l) THEN "#3b82f6"
        ELSE IF some(StructureKeywords, l) THEN "#f97316"
        ELSE IF some(AttributeKeywords, l) THEN "#10b981"
        ELSE IF some(CreationKeywords, l) THEN "#ef4444"
        ELSE "#64748b"

getEdgeColor(lbl) ==
    LET l == toLowerCase(String(lbl))
    IN  IF ~Truthy(lbl) THEN "#64748b"
        ELSE IF some(InteractionKeywords, l) THEN "#3b82f6"
        ELSE IF some(PerceptionKeywords, l) THEN "#a855f7"
        ELSE IF some(StructureKeywords, l) THEN "#f97316"
        ELSE IF some(AttributeKeywords, l) THEN "#10b981"
        ELSE IF some(CreationKeywords, l) THEN "#ef4444"
        ELSE "#64748b"

(***************************************************************************)
(* The labels getEdgeColor is called with: undefined, and every string     *)
(* assembled from at most MaxFragments fragments.  The fragments are a     *)
(* keyword of every category, a capitalised keyword, two halves of a       *)
(* keyword, a word that merely contains a keyword, and fillers.            *)
(***************************************************************************)
Fragments ==
    { <<"~v", "~z", "~a", "~i", "~m", "~o", "~d", "~e", "~j", "~s", "~t", "~v", "~i", "~e">>,
      <<"~v", "~i", "~d", "~e", "~n", "~i", "~e">>,
      <<"~ch", "~a", "~s", "~t", "~soft">>,
      tPrichina,
      <<"~s", "~o", "~z", "~d", "~a", "~n", "~i", "~e">>,
      <<"~P", "~r", "~i", "~ch", "~i", "~n", "~a">>,
      <<"~p", "~r", "~i">>,
      <<"~ch", "~i", "~n", "~a">>,
      <<"~p", "~o", "~d", "~r", "~o", "~s", "~t", "~o", "~k">>,
      <<"~n", "~e">>,
      <<" ">>,
      <<"4">> }

RECURSIVE Assembled(_)
Assembled(n) ==
    IF n = 0 THEN {<<>>}
    ELSE Assembled(n - 1) \cup {s \o f : s \in Assembled(n - 1), f \in Fragments}

LabelInputs == {Undefined} \cup {Str(s) : s \in Assembled(MaxFragments)}

\* the classifier on its own: the label is drawn first, then
\* getEdgeColor(label) is called once
ColorInit ==
    /\ pc = "lines"
    /\ input = <<>>
    /\ nodes = <<>>
    /\ links = <<>>
    /\ currentNodeStyle = SeedStyle
    /\ graph = NoGraph
    /\ label \in LabelInputs
    /\ color = "none"
    /\ AttrIdle
    /\ SizeIdle
    /\ CanvasIdle
    /\ PanelIdle

Classify ==
    /\ color = "none"
    /\ color' = getEdgeColor(label)
    /\ UNCHANGED <<label, parseVars, attrVars, sizeVars, canvasVars, panelVars>>

ColorSpec == ColorInit /\ [][Classify]_vars

(***************************************************************************)
(* What the statements of the input mean, read off the statement itself    *)
(* (not off the parser): used to state the claims.                         *)
(***************************************************************************)
\* the step consumes the line of statement i
Consumes(i) == input' = Append(input, i)

\* the statement whose line was consumed last
LastStmt == Statements[input[Len(input)]]

IsStyleDirective(st) == st.kind = "style"

IsEdgeLine(st) == st.kind = "edge"

\* a single quoted identifier, optional attributes, no edge arrow in the line
IsNodeDeclaration(st) == st.kind = "node" /\ ~includes(Render(st), <<"-", ">">>)

\* blank, comment and marker lines, and lines of none of the three patterns
IsInertLine(st) == st.kind = "raw"

\* the attribute block names key k
Names(attrs, k) == \E j \in 1..Len(attrs) : attrs[j].k = k

NamedKeys(attrs) == {attrs[j].k : j \in 1..Len(attrs)}

\* the value text the block gives key k: that of the last pair naming k
LastText(attrs, k) == attrs[Max({j \in 1..Len(attrs) : attrs[j].k = k})].v

\* x with every escaped quote  \"  replaced by the quote alone
Unescaped(x) ==
    LET keep == {j \in 1..Len(x) : ~(x[j] = "\\" /\ j < Len(x) /\ x[j + 1] = Quote)}
        nth(n) == CHOOSE j \in keep : Cardinality({h \in keep : h < j}) = n - 1
    IN  [n \in 1..Cardinality(keep) |-> x[nth(n)]]

\* the identifiers the text declares by node-declaration lines
DeclaredIds(text) ==
    {Statements[text[j]].a : j \in {h \in 1..Len(text) : IsNodeDeclaration(Statements[text[h]])}}

\* the ids of the returned node list
NodeIdsAt(i) == graph.nodes[i][kId]

(***************************************************************************)
(* The claims.                                                             *)
(***************************************************************************)

\* C1: the node list returned by parseDotData holds no two nodes with the
\* same id, and for every identifier declared by node-declaration lines,
\* however often, exactly one node whose id is that identifier.
C1_UniqueNodeIds ==
    pc = "returned" =>
        /\ \A i, j \in 1..Len(graph.nodes) : NodeIdsAt(i) = NodeIdsAt(j) => i = j
        /\ \A x \in DeclaredIds(input) :
              Cardinality({i \in 1..Len(graph.nodes) : NodeIdsAt(i) = Str(x)}) = 1

\* C2: every edge of the returned graph has a source and a target that are
\* each the id of some node of the returned node list.
C2_EdgeEndpointsAreNodes ==
    pc = "returned" =>
        \A k \in 1..Len(graph.links) :
            /\ \E i \in 1..Len(graph.nodes) : NodeIdsAt(i) = graph.links[k].source
            /\ \E i \in 1..Len(graph.nodes) : NodeIdsAt(i) = graph.links[k].target

\* C3: a style-directive line changes no node of the node map (and no edge);
\* and after  node [color=red]; "X"; node [color=blue]; "Y";  the color of X
\* is red and the color of Y is blue.
C3_StyleDirectiveStep ==
    /\ \A i \in 1..Len(Statements) :
          (Consumes(i) /\ IsStyleDirective(Statements[i])) =>
              nodes' = nodes /\ links' = links
    /\ input' = StyleOrderExample =>
          /\ MapGet(nodes', idX)[kColor] = Str(tRed)
          /\ MapGet(nodes', idY)[kColor] = Str(tBlue)

C3_StyleDirectivesNotRetroactive == [][C3_StyleDirectiveStep]_vars

\* C3 witness: the example text has been consumed: X was declared under
\* color=red and the directive color=blue came after it.
C3_Witness ==
    /\ input = StyleOrderExample
    /\ MapHas(nodes, idX)
    /\ currentNodeStyle[kColor] = Str(tBlue)

\* C4: an endpoint of an edge line that is not yet in the node map becomes a
\* node with id = the identifier, label = the identifier, and otherwise
\* exactly the default style active when the edge line is processed.
C4_ImplicitNodeStep ==
    \A i \in 1..Len(Statements) :
        (Consumes(i) /\ IsEdgeLine(Statements[i])) =>
            \A x \in {Statements[i].a, Statements[i].b} :
                ~MapHas(nodes, x) =>
                    /\ MapHas(nodes', x)
                    /\ MapGet(nodes', x) =
                          ((kId :> Str(x)) @@ (kLabel :> Str(x))) @@ currentNodeStyle

C4_ImplicitNodeHasDefaultStyle == [][C4_ImplicitNodeStep]_vars

\* C5: a node-declaration line for X with block B makes node X have id X,
\* label X with escaped quotes unescaped (unless B gives a label), and for
\* every other key B's value when B sets it and the active default otherwise.
C5_NodeDeclarationStep ==
    \A i \in 1..Len(Statements) :
        (Consumes(i) /\ IsNodeDeclaration(Statements[i])) =>
            LET st == Statements[i]
                n  == MapGet(nodes', st.a)
            IN  /\ MapHas(nodes', st.a)
                /\ DOMAIN n = {kId, kLabel} \cup (DOMAIN currentNodeStyle)
                                \cup NamedKeys(st.attrs)
                /\ n[kId] = Str(st.a)
                /\ ~Names(st.attrs, kLabel) => n[kLabel] = Str(Unescaped(st.a))
                /\ \A k \in (DOMAIN n) \ {kId, kLabel} :
                      String(n[k]) = IF Names(st.attrs, k)
                                     THEN LastText(st.attrs, k)
                                     ELSE String(Get(currentNodeStyle, k))

C5_NodeDeclarationMerges == [][C5_NodeDeclarationStep]_vars

\* C6: a style-directive line leaves the active style equal to the previous
\* one with each key the directive names set to the directive's value (the last
\* occurrence of a repeated key) and every other key unchanged; no other line
\* changes it, and before the first directive it is the fixed seed (fillcolor
\* white, width 1, fontsize 60, ...).
C6_StyleStep ==
    /\ (\A j \in 1..Len(input) : ~IsStyleDirective(Statements[input[j]])) =>
          /\ currentNodeStyle = SeedStyle
          /\ String(currentNodeStyle[kFillcolor]) = tWhite
          /\ currentNodeStyle[kWidth] = Num(1, 0)
          /\ currentNodeStyle[kFontsize] = Num(60, 0)
    /\ \A i \in 1..Len(Statements) :
          Consumes(i) =>
              IF IsStyleDirective(Statements[i])
              THEN LET B == Statements[i].attrs
                   IN  /\ DOMAIN currentNodeStyle' =
                              (DOMAIN currentNodeStyle) \cup NamedKeys(B)
                       /\ \A k \in DOMAIN currentNodeStyle' :
                              IF Names(B, k)
                              THEN String(currentNodeStyle'[k]) = LastText(B, k)
                              ELSE currentNodeStyle'[k] = currentNodeStyle[k]
              ELSE currentNodeStyle' = currentNodeStyle

C6_StyleDirectiveMerges == [][C6_StyleStep]_vars

\* C6 witness: two directives consumed, the second naming width twice: the
\* color of the first is retained, width is the last value, fillcolor the seed's.
C6_Witness ==
    /\ Len(input) = 2
    /\ Statements[input[1]] = StyleStmt(<<Pair(kColor, tRed, FALSE)>>)
    /\ Len(Statements[input[2]].attrs) = 2
    /\ currentNodeStyle[kColor] = Str(tRed)
    /\ currentNodeStyle[kWidth] = Num(4, 0)
    /\ currentNodeStyle[kFillcolor] = Str(tWhite)

\* the link an edge statement stands for: its two identifiers, and the text
\* of its label attribute or the empty string, as a string
ExpectedLink(st) ==
    [source |-> Str(st.a), target |-> Str(st.b),
     label |-> Str(IF Names(st.attrs, kLabel) THEN LastText(st.attrs, kLabel) ELSE <<>>)]

EdgeLinesOf(text) == SelectSeq(text, LAMBDA i : IsEdgeLine(Statements[i]))

\* C7: the edge list holds exactly one entry per edge line consumed, in line
\* order (repeated lines give repeated entries), with the line's two
\* identifiers and its label text (else the empty string) as a string; the
\* returned edge list is that list.
C7_OneLinkPerEdgeLine ==
    /\ links = [k \in 1..Len(EdgeLinesOf(input)) |->
                   ExpectedLink(Statements[EdgeLinesOf(input)[k]])]
    /\ pc = "returned" => graph.links = links

\* C7 witness: the same edge line with the numeric label 4 was consumed twice:
\* two equal entries, whose label is the string "4".
C7_Witness ==
    /\ pc = "returned"
    /\ Len(graph.links) = 2
    /\ graph.links[1] = graph.links[2]
    /\ graph.links[1].label = Str(<<"4">>)

\* C8: blank, comment and marker lines and lines of none of the three patterns
\* leave the node map, the edge list and the active style unchanged; whatever
\* the line, the callback returns and forEach can go on to any next line.
C8_InertStep ==
    \A i \in 1..Len(Statements) :
        (Consumes(i) /\ IsInertLine(Statements[i])) =>
            /\ nodes' = nodes
            /\ links' = links
            /\ currentNodeStyle' = currentNodeStyle

C8_NeverStuck ==
    pc = "lines" =>
        \A i \in 1..Len(Statements) : InScope(Append(input, i)) => ENABLED Callback(i)

C8_InertLinesChangeNothing == [][C8_InertStep]_vars /\ []C8_NeverStuck

\* C8 witness: an inert line was consumed after a directive and an edge line
\* had changed the style, the node map and the edge list.
C8_Witness ==
    /\ Len(input) = 3
    /\ IsInertLine(LastStmt)
    /\ nodes # <<>>
    /\ links # <<>>
    /\ currentNodeStyle # SeedStyle

\* C9: for every label (any string, the empty string, undefined) getEdgeColor
\* returns one of the six fixed category colors.
C9_ColorIsOneOfSix ==
    color # "none" =>
        color \in {"#3b82f6", "#a855f7", "#f97316", "#10b981", "#ef4444", "#64748b"}

\* C9 witness: getEdgeColor has returned for the empty or the undefined label.
C9_Witness ==
    /\ color # "none"
    /\ label \in {Undefined, Str(<<>>)}

\* the categories in their fixed order, and their colors
CategoryKeywords ==
    <<InteractionKeywords, PerceptionKeywords, StructureKeywords,
      AttributeKeywords, CreationKeywords>>

CategoryColors == <<"#3b82f6", "#a855f7", "#f97316", "#10b981", "#ef4444">>

\* the categories one of whose keywords is a substring of the lower-cased label
MatchingCategories(lbl) ==
    IF lbl.t # "str" THEN {}
    ELSE {c \in 1..Len(CategoryKeywords) :
            \E k \in 1..Len(CategoryKeywords[c]) :
                includes(toLowerCase(lbl.s), CategoryKeywords[c][k])}

\* C10: getEdgeColor returns the color of the earliest category, in the order
\* interaction, perception, structure, attribute, creation, that has a keyword
\* in the lower-cased label, and #64748b exactly when no category has one (an
\* empty or undefined label has none).
C10_FirstCategoryWins ==
    color # "none" =>
        /\ MatchingCategories(label) # {} =>
              color = CategoryColors[Min(MatchingCategories(label))]
        /\ color = "#64748b" <=> MatchingCategories(label) = {}

\* C10 witness: a classified label that holds keywords of two categories, the
\* later category's keyword first.
C10_Witness ==
    /\ color = "#3b82f6"
    /\ Cardinality(MatchingCategories(label)) = 2
    /\ ~includes(SubSeq(label.s, 1, 3), <<"~v">>)

(***************************************************************************)
(* JavaScript arithmetic on the values above.  Numbers are exact decimals: *)
(* the widths explored and their sizes are exactly representable doubles.  *)
(***************************************************************************)
\* t is a whole decimal literal: [+-] digits [. digits]  or  [+-] . digits
IsDecimalLiteral(t) ==
    LET i   == IF t # <<>> /\ t[1] \in {"+", "-"} THEN 2 ELSE 1
        n1  == DigitRun(t, i)
        dot == i + n1 <= Len(t) /\ t[i + n1] = "."
        n2  == IF dot THEN DigitRun(t, i + n1 + 1) ELSE 0
    IN  /\ n1 + n2 > 0
        /\ i + n1 + (IF dot THEN 1 + n2 ELSE 0) = Len(t) + 1

\* ToNumber: what * does to an operand (strings: decimal literals only)
ToNumber(v) ==
    CASE v.t = "num" -> v
      [] v.t = "str" ->
            IF trim(v.s) = <<>> THEN Num(0, 0)
            ELSE IF IsDecimalLiteral(trim(v.s)) THEN parseFloat(trim(v.s))
            ELSE NaN
      [] OTHER -> NaN

\* a || b
OrElse(a, b) == IF Truthy(a) THEN a ELSE b

\* a * b
\* x * y, for numbers (NaN included)
Product(x, y) ==
    IF isNaN(x) \/ isNaN(y) THEN NaN ELSE Normalise(x.m * y.m, x.e + y.e)

Times(a, b) == Product(ToNumber(a), ToNumber(b))

\* the numerator of the number v over the denominator 10^e
Scaled(v, e) == v.m * Pow10(e - v.e)

\* a + b, for numbers
Plus(a, b) ==
    LET e == Max({a.e, b.e})
    IN  IF isNaN(a) \/ isNaN(b) THEN NaN
        ELSE Normalise(Scaled(a, e) + Scaled(b, e), e)

\* a > b, for numbers: false when either is NaN
GreaterThan(a, b) ==
    LET e == Max({a.e, b.e})
    IN  /\ a.t = "num"
        /\ b.t = "num"
        /\ Scaled(a, e) > Scaled(b, e)

(***************************************************************************)
(* getSizeForNode.                                                         *)
(***************************************************************************)
getSizeForNode(node) ==
    LET baseWidth == OrElse(Get(node, kWidth), Num(1, 0))
    IN  Plus(Times(baseWidth, Num(10, 0)), Num(5, 0))

\* the texts a width attribute is written with
WidthTexts ==
    { <<"0">>, <<"0", ".", "5">>, <<"1">>, <<"1", ".", "5">>, <<"2">>,
      <<"2", ".", "5">>, <<"3">>, <<"3", ".", "5">>, <<"4">>,
      <<"4", ".", "0">>, <<"-", "1">>, <<"b", "i", "g">>, <<Quote, Quote>> }

\* the node objects measured: the width is what parseAttributes stores for
\* width=<text>, or the node has no width
WithWidth(text) ==
    Spread(kId :> Str(idX), parseAttributes(kWidth \o <<"=">> \o text))

MeasuredNodes == {kId :> Str(idX)} \cup {WithWidth(t) : t \in WidthTexts}

\* getSizeForNode on its own: two nodes are drawn, then both are measured
SizeInit ==
    /\ ParserIdle
    /\ ColorIdle
    /\ AttrIdle
    /\ CanvasIdle
    /\ PanelIdle
    /\ measured \in {<<a, b>> : a \in MeasuredNodes, b \in MeasuredNodes}
    /\ sizes = <<>>

Measure ==
    /\ sizes = <<>>
    /\ sizes' = [i \in 1..Len(measured) |-> getSizeForNode(measured[i])]
    /\ UNCHANGED <<measured, parseVars, colorVars, attrVars, canvasVars, panelVars>>

SizeSpec == SizeInit /\ [][Measure]_vars

\* a <= b, for numbers
AtMost(a, b) == a.t = "num" /\ b.t = "num" /\ ~GreaterThan(a, b)

DeclaredWidth(node) == Get(node, kWidth)

\* C13: for nodes with a declared numeric width the size is width*10+5 and a
\* smaller or equal width never gives a larger size; a node without width
\* has size 15.
C13_SizeMonotonicInWidth ==
    sizes # <<>> =>
        \A i, j \in 1..Len(measured) :
            LET wi == DeclaredWidth(measured[i])
                wj == DeclaredWidth(measured[j])
            IN  /\ (wi.t = "num" /\ wj.t = "num" /\ AtMost(wi, wj)) =>
                      AtMost(sizes[i], sizes[j])
                /\ wi.t = "num" => sizes[i] = Plus(Times(wi, Num(10, 0)), Num(5, 0))
                /\ wi = Undefined => sizes[i] = Num(15, 0)

\* C14: getSizeForNode returns a number for every node, and 15 for a node
\* whose width is absent, zero or a string that is not a number.
C14_SizeAlwaysValid ==
    sizes # <<>> =>
        \A i \in 1..Len(measured) :
            LET w == DeclaredWidth(measured[i])
            IN  /\ sizes[i].t = "num"
                /\ (w = Undefined \/ w = Num(0, 0) \/ isNaN(ToNumber(w))) =>
                      sizes[i] = Num(15, 0)

(***************************************************************************)
(* The layout configurator.  The simulation's named forces are a function  *)
(* from the force's name to its parameters; a parameter the canvas does    *)
(* not set is undefined (the solver's default); an accessor is the         *)
(* sequence of its values over the nodes, in node order.                   *)
(***************************************************************************)
\* LayoutType
Modes == {"force", "radial", "grid", "subset", "circuit"}

\* simulation.force(name, force)
SetForce(sim, name, force) == (name :> force) @@ sim

\* a - b, for numbers
Minus(a, b) == Plus(a, Product(b, Num(-1, 0)))

\* a / 2
Half(a) == Product(a, Num(5, 1))

\* d3.forceLink(graphData.links).id(d => d.id)
LinkForce(distance, strength) ==
    [id |-> kId, distance |-> distance, strength |-> strength]

\* d3.forceManyBody().strength(s)
ManyBody(strength) == [strength |-> strength]

\* d3.forceCenter(x, y).strength(s)
Center(x, y, strength) == [x |-> x, y |-> y, strength |-> strength]

\* d3.forceCollide().radius(accessor).iterations(n)
Collide(radius, iterations) == [radius |-> radius, iterations |-> iterations]

\* d3.forceX(accessor).strength(s), d3.forceY(accessor).strength(s)
Positional(target, strength) == [target |-> target, strength |-> strength]

\* RadialRadius with a bug: the thresholds are inclusive
RadialRadius_Inclusive(d) ==
    LET size == getSizeForNode(d)
    IN  IF ~GreaterThan(Num(40, 0), size) /\ size.t = "num" THEN Num(0, 0)
        ELSE IF ~GreaterThan(Num(30, 0), size) /\ size.t = "num" THEN Num(250, 0)
        ELSE IF ~GreaterThan(Num(20, 0), size) /\ size.t = "num" THEN Num(500, 0)
        ELSE Num(800, 0)

\* the radius accessor of the radial force
RadialRadius(d) ==
    LET size == getSizeForNode(d)
    IN  IF GreaterThan(size, Num(40, 0)) THEN Num(0, 0)
        ELSE IF GreaterThan(size, Num(30, 0)) THEN Num(250, 0)
        ELSE IF GreaterThan(size, Num(20, 0)) THEN Num(500, 0)
        ELSE Num(800, 0)

\* d3.forceRadial(accessor, x, y).strength(s)
Radial(radius, x, y, strength) ==
    [radius |-> radius, x |-> x, y |-> y, strength |-> strength]

\* the elements of seq without repetition, in order of first appearance:
\* Array.from(new Set(seq))
Distinct(seq) ==
    LET firsts == {i \in 1..Len(seq) : \A j \in 1..(i - 1) : seq[j] # seq[i]}
    IN  [k \in 1..Cardinality(firsts) |->
            seq[CHOOSE i \in firsts : Cardinality({j \in firsts : j < i}) = k - 1]]

DefaultFill == Str(<<"#", "c", "c", "c">>)

\* FillOf with a bug: a node without fill color is not taken as '#ccc'
FillOf_NoDefault(d) == Get(d, kFillcolor)

\* d.fillcolor || '#ccc'
FillOf(d) == OrElse(Get(d, kFillcolor), DefaultFill)

\* const groups = Array.from(new Set(graphData.nodes.map(...)))
Groups(graphData) == Distinct([i \in 1..Len(graphData) |-> FillOf(graphData[i])])

\* a point of the circle of the given radius around (w/2, h/2), at the angle
\* (i / groupCount) * 2 * PI: x is center.x + radius * cos(angle), y is
\* center.y + radius * sin(angle)
OnCircle(w, h, i, groupCount) ==
    LET radius == Product(Num(Min({w, h}), 0), Num(35, 2))
        point  == [cx |-> Half(Num(w, 0)), cy |-> Half(Num(h, 0)),
                   radius |-> radius, i |-> i, groupCount |-> groupCount]
    IN  [x |-> [axis |-> "cos", of |-> point], y |-> [axis |-> "sin", of |-> point]]

\* groups.forEach((color, i) => groupCenters[color] = ...): the object is
\* keyed by the color as a property name
\* (the last group assigned to a property name stays)
GroupCenters(groups, w, h) ==
    [key \in {String(groups[i]) : i \in 1..Len(groups)} |->
        OnCircle(w, h, Max({i \in 1..Len(groups) : String(groups[i]) = key}) - 1,
                 Len(groups))]

\* groupCenters[color]?.x || w/2 and groupCenters[color]?.y || h/2 (x and y
\* of a point of the circle are at least 0.15 times the viewport, never 0)
GroupTarget(d, centers, w, h) ==
    LET key == String(FillOf(d))
    IN  IF key \in DOMAIN centers THEN centers[key]
        ELSE [x |-> Half(Num(w, 0)), y |-> Half(Num(h, 0))]

\* GridColumns with a bug: the factor 1.5 is missing
GridColumns_NoFactor(n) == CHOOSE c \in 0..n : c * c >= n /\ \A b \in 0..(c - 1) : b * b < n

\* Math.ceil(Math.sqrt(n * 1.5)): the least c with c * c >= 1.5 * n
GridColumns(n) ==
    CHOOSE c \in 0..(2 * n) : 2 * c * c >= 3 * n /\ \A b \in 0..(c - 1) : 2 * b * b < 3 * n

\* the x accessor of grid mode at index i (from 0)
GridX(i, n, w) ==
    LET cols  == GridColumns(n)
        scale == 120
        col   == i % cols
    IN  Plus(Minus(Half(Num(w, 0)), Half(Num(cols * scale, 0))), Num(col * scale, 0))

\* the y accessor of grid mode at index i (from 0); cols divides n * scale
\* for the node counts explored
GridY(i, n, h) ==
    LET cols  == GridColumns(n)
        scale == 120
        row   == i \div cols
    IN  Plus(Minus(Half(Num(h, 0)), Half(Num((n * scale) \div cols, 0))), Num(row * scale, 0))

\* the collision radius accessor, over the nodes
CollideRadius(graphData) ==
    [i \in 1..Len(graphData) |-> Plus(getSizeForNode(graphData[i]), Num(5, 0))]

CircuitCollideRadius(graphData) ==
    [i \in 1..Len(graphData) |-> Product(getSizeForNode(graphData[i]), Num(15, 1))]

\* the forces common to all modes: the link force and the collision force
CommonForces(simulation, graphData) ==
    SetForce(SetForce(simulation, "link", LinkForce(Undefined, Undefined)),
             "collide", Collide(CollideRadius(graphData), Num(2, 0)))

\* mode === 'force'
ForceLayout(simulation, w, h, graphData) ==
    SetForce(SetForce(SetForce(CommonForces(simulation, graphData),
        "link", LinkForce(Num(100, 0), Undefined)),
        "charge", ManyBody(Num(-300, 0))),
        "center", Center(Half(Num(w, 0)), Half(Num(h, 0)), Undefined))

\* mode === 'radial'
RadialLayout(simulation, w, h, graphData) ==
    SetForce(SetForce(SetForce(CommonForces(simulation, graphData),
        "charge", ManyBody(Num(-100, 0))),
        "link", LinkForce(Undefined, Num(1, 1))),
        "radial", Radial([i \in 1..Len(graphData) |-> RadialRadius(graphData[i])],
                         Half(Num(w, 0)), Half(Num(h, 0)), Num(8, 1)))

\* mode === 'circuit'
CircuitLayout(simulation, w, h, graphData) ==
    SetForce(SetForce(SetForce(SetForce(CommonForces(simulation, graphData),
        "charge", ManyBody(Num(-1200, 0))),
        "center", Center(Half(Num(w, 0)), Half(Num(h, 0)), Num(5, 2))),
        "link", LinkForce(Num(150, 0), Num(8, 1))),
        "collide", Collide(CircuitCollideRadius(graphData), Undefined))

\* the point each node is pulled toward in subset mode, over the nodes
GroupTargets(graphData, w, h) ==
    [i \in 1..Len(graphData) |->
        GroupTarget(graphData[i], GroupCenters(Groups(graphData), w, h), w, h)]

\* the x and y forces of subset mode, given the nodes' targets
PullToward(simulation, targets) ==
    SetForce(SetForce(simulation,
        "x", Positional([i \in DOMAIN targets |-> targets[i].x], Num(5, 1))),
        "y", Positional([i \in DOMAIN targets |-> targets[i].y], Num(5, 1)))

\* mode === 'subset'
SubsetLayout(simulation, w, h, graphData) ==
    PullToward(SetForce(SetForce(CommonForces(simulation, graphData),
                   "charge", ManyBody(Num(-100, 0))),
                   "link", LinkForce(Undefined, Num(5, 2))),
               GroupTargets(graphData, w, h))

\* mode === 'grid'
GridLayout(simulation, w, h, graphData) ==
    SetForce(SetForce(SetForce(SetForce(CommonForces(simulation, graphData),
        "charge", ManyBody(Num(-50, 0))),
        "link", LinkForce(Undefined, Num(1, 2))),
        "x", Positional([i \in 1..Len(graphData) |-> GridX(i - 1, Len(graphData), w)],
                        Num(1, 0))),
        "y", Positional([i \in 1..Len(graphData) |-> GridY(i - 1, Len(graphData), h)],
                        Num(1, 0)))

applyLayoutForces(simulation, mode, w, h, graphData) ==
    CASE mode = "force"   -> ForceLayout(simulation, w, h, graphData)
      [] mode = "radial"  -> RadialLayout(simulation, w, h, graphData)
      [] mode = "circuit" -> CircuitLayout(simulation, w, h, graphData)
      [] mode = "subset"  -> SubsetLayout(simulation, w, h, graphData)
      [] mode = "grid"    -> GridLayout(simulation, w, h, graphData)
      [] OTHER            -> CommonForces(simulation, graphData)

(***************************************************************************)
(* The canvas: the simulation, the layout effect and the drag handlers.    *)
(* The solver is the collaborator d3-force, taken at its interface: named  *)
(* forces, alpha (in tenths) cooling towards alphaTarget on every tick     *)
(* (here one tick stands for the whole cooling), a timer that stops once   *)
(* alpha is below alphaMin, and nodes that a tick moves freely unless fx,  *)
(* fy pin them.  d3-drag runs one gesture per pointer and reports in       *)
(* event.active how many others run.                                       *)
(***************************************************************************)
\* the most nodes of a graph handed to the layout configurator
MaxNodes == 3

\* the points a node or the pointer can be at are numbered 0..MaxPoint
MaxPoint == 1

\* the most drag gestures in progress at a time (mouse, touches)
MaxGestures == 2

\* the points of the plane explored: no two share x or y, and no x is a y
Points == {[x |-> c, y |-> MaxPoint + 1 + c] : c \in 0..MaxPoint}

GestureIds == 1..MaxGestures

\* fx = null, fy = null
Null == <<>>

\* fx = v, fy = v
At(v) == <<v>>

NoForces == [k \in {} |-> Undefined]

\* RemoveOldForces with a bug: the positional forces are left installed
RemoveOldForces_KeepPositional(simulation) ==
    [k \in (DOMAIN simulation) \ {"link", "charge", "center", "collide", "radial"} |->
        simulation[k]]

\* simulation.force(name, null) for the seven names
RemoveOldForces(simulation) ==
    [k \in (DOMAIN simulation) \
            {"link", "charge", "center", "collide", "radial", "x", "y"} |->
        simulation[k]]

\* the kinds of node of the graphs configured: widths on both sides of and
\* on the thresholds of the radial tiers, fill colors present and absent
NodeKinds ==
    { EmptyObject,
      kWidth :> Num(15, 1),
      kFillcolor :> DefaultFill,
      (kWidth :> Num(25, 1)) @@ (kFillcolor :> Str(tWhite)),
      (kWidth :> Num(3, 0)) @@ (kFillcolor :> Str(tBlue)),
      (kWidth :> Num(35, 1)) @@ (kFillcolor :> Str(tWhite)),
      (kWidth :> Num(4, 0)) @@ (kFillcolor :> Str(tRed)),
      (kWidth :> Str(<<"b", "i", "g">>)) @@ (kFillcolor :> Str(tBlue)) }

\* the node lists of 1 to n nodes; the id of a node is its number
GraphsOf(n) ==
    UNION { { [i \in 1..k |-> Spread(kId :> Str(NatToDigits(i)), f[i])] :
                f \in [1..k -> NodeKinds] } : k \in 1..n }

\* the most nodes of a graph whose nodes are all of one kind
MaxUniformNodes == 8

\* the node lists of 1 to n nodes of one kind: the longer lists, that fill
\* more than one row of the grid
UniformGraphs(n) ==
    { [i \in 1..k |-> Spread(kId :> Str(NatToDigits(i)), kind)] :
          k \in 1..n, kind \in NodeKinds }

Viewports == {[w |-> 800, h |-> 600], [w |-> 600, h |-> 900]}

Unpinned(x, y) == [x |-> x, y |-> y, fx |-> Null, fy |-> Null]

\* the simulation has just been created over the nodes, hot and running,
\* with no force yet
Created(graphs) ==
    /\ ParserIdle
    /\ ColorIdle
    /\ AttrIdle
    /\ SizeIdle
    /\ PanelIdle
    /\ data \in graphs
    /\ viewport \in Viewports
    /\ layout \in Modes
    /\ forces = NoForces
    /\ alpha = 10
    /\ alphaTarget = 0
    /\ timer = TRUE
    /\ gestures = [g \in {} |-> 0]
    /\ switchedFrom = "none"

\* the body of the layout effect, on the forces
Reconfigure(simulation, mode) ==
    applyLayoutForces(RemoveOldForces(simulation), mode, viewport.w, viewport.h, data)

\* the rest of the first render: the forces of the initial layout are applied
\* to the new simulation, and then the layout effect runs for the first time
InitialLayout ==
    /\ layout \in Modes
    /\ forces = NoForces
    /\ forces' = Reconfigure(applyLayoutForces(forces, layout, viewport.w, viewport.h, data),
                             layout)
    /\ alpha' = 10
    /\ timer' = TRUE
    /\ UNCHANGED <<data, viewport, layout, alphaTarget, position, gestures, switchedFrom,
                   parseVars, colorVars, attrVars, sizeVars, panelVars>>

\* LayoutEffect with a bug: the switch also releases every pinned node
LayoutEffect_ReleasesPins(mode) ==
    /\ forces # NoForces
    /\ mode # layout
    /\ layout' = mode
    /\ switchedFrom' = layout
    /\ forces' = Reconfigure(forces, mode)
    /\ alpha' = 10
    /\ timer' = TRUE
    /\ position' = [n \in DOMAIN position |-> Unpinned(position[n].x, position[n].y)]
    /\ UNCHANGED <<data, viewport, alphaTarget, gestures,
                   parseVars, colorVars, attrVars, sizeVars, panelVars>>

\* the prop `layout` changes to mode and the layout effect runs
LayoutEffect(mode) ==
    /\ forces # NoForces
    /\ mode # layout
    /\ layout' = mode
    /\ switchedFrom' = layout
    /\ forces' = Reconfigure(forces, mode)
    /\ alpha' = 10
    /\ timer' = TRUE
    /\ UNCHANGED <<data, viewport, alphaTarget, position, gestures,
                   parseVars, colorVars, attrVars, sizeVars, panelVars>>

\* one step of the solver's timer
Tick ==
    /\ forces # NoForces
    /\ timer
    /\ switchedFrom' = "none"
    /\ alpha' = alphaTarget
    /\ timer' = (alpha' >= 1)
    /\ \E free \in [DOMAIN position -> Points] :
          position' = [n \in DOMAIN position |->
              [x  |-> IF position[n].fx = Null THEN free[n].x ELSE position[n].fx[1],
               y  |-> IF position[n].fy = Null THEN free[n].y ELSE position[n].fy[1],
               fx |-> position[n].fx,
               fy |-> position[n].fy]]
    /\ UNCHANGED <<data, viewport, layout, forces, alphaTarget, gestures,
                   parseVars, colorVars, attrVars, sizeVars, panelVars>>

\* the `start` event of gesture g on node n
dragstarted(g, n) ==
    /\ forces # NoForces
    /\ switchedFrom' = "none"
    /\ g \notin DOMAIN gestures
    /\ n \in DOMAIN position
    /\ IF Cardinality(DOMAIN gestures) = 0
       THEN alphaTarget' = 3 /\ timer' = TRUE
       ELSE UNCHANGED <<alphaTarget, timer>>
    /\ position' = [position EXCEPT ![n].fx = At(position[n].x),
                                    ![n].fy = At(position[n].y)]
    /\ gestures' = [k \in (DOMAIN gestures) \cup {g} |-> IF k = g THEN n ELSE gestures[k]]
    /\ UNCHANGED <<data, viewport, layout, forces, alpha,
                   parseVars, colorVars, attrVars, sizeVars, panelVars>>

\* a `drag` event of gesture g: event.x, event.y are those of point p
dragged(g, p) ==
    /\ g \in DOMAIN gestures
    /\ switchedFrom' = "none"
    /\ position' = [position EXCEPT ![gestures[g]].fx = At(p.x),
                                    ![gestures[g]].fy = At(p.y)]
    /\ UNCHANGED <<data, viewport, layout, forces, alpha, alphaTarget, timer, gestures,
                   parseVars, colorVars, attrVars, sizeVars, panelVars>>

\* dragended with a bug: the alpha target is reset whatever event.active is
dragended_AlwaysResets(g) ==
    /\ g \in DOMAIN gestures
    /\ switchedFrom' = "none"
    /\ alphaTarget' = 0
    /\ position' = [position EXCEPT ![gestures[g]].fx = Null,
                                    ![gestures[g]].fy = Null]
    /\ gestures' = [k \in (DOMAIN gestures) \ {g} |-> gestures[k]]
    /\ UNCHANGED <<data, viewport, layout, forces, alpha, timer,
                   parseVars, colorVars, attrVars, sizeVars, panelVars>>

\* the `end` event of gesture g
dragended(g) ==
    /\ g \in DOMAIN gestures
    /\ switchedFrom' = "none"
    /\ IF Cardinality(DOMAIN gestures) = 1
       THEN alphaTarget' = 0
       ELSE UNCHANGED alphaTarget
    /\ position' = [position EXCEPT ![gestures[g]].fx = Null,
                                    ![gestures[g]].fy = Null]
    /\ gestures' = [k \in (DOMAIN gestures) \ {g} |-> gestures[k]]
    /\ UNCHANGED <<data, viewport, layout, forces, alpha, timer,
                   parseVars, colorVars, attrVars, sizeVars, panelVars>>

\* the layout configurator on its own: the first render of the canvas, for
\* every graph of up to MaxNodes nodes and every layout
LayoutInit ==
    /\ Created(GraphsOf(MaxNodes) \cup UniformGraphs(MaxUniformNodes))
    /\ position = [n \in 1..Len(data) |-> Unpinned(0, 0)]

LayoutSpec == LayoutInit /\ [][InitialLayout]_vars

\* the graph of the running canvas: two nodes
CanvasData ==
    << (kId :> Str(idX)) @@ (kWidth :> Num(4, 0)) @@ (kFillcolor :> Str(tWhite)),
       (kId :> Str(idY)) >>

\* the running canvas: layout switches, ticks and drag gestures interleave
CanvasInit ==
    /\ Created({CanvasData})
    /\ position \in [1..Len(data) -> {Unpinned(p.x, p.y) : p \in Points}]

CanvasNext ==
    \/ InitialLayout
    \/ \E mode \in Modes : LayoutEffect(mode)
    \/ Tick
    \/ \E g \in GestureIds, n \in 1..Len(data) : dragstarted(g, n)
    \/ \E g \in GestureIds, p \in Points : dragged(g, p)
    \/ \E g \in GestureIds : dragended(g)

CanvasSpec == CanvasInit /\ [][CanvasNext]_vars

\* the named forces of a mode
ModeForces(mode) ==
    {"link", "collide"} \cup
        CASE mode \in {"force", "circuit"} -> {"charge", "center"}
          [] mode = "radial" -> {"charge", "radial"}
          [] mode \in {"grid", "subset"} -> {"charge", "x", "y"}

\* C11: once the canvas is configured, and after any sequence of layout
\* switches, the named forces installed are exactly those of the current mode,
\* with the parameters that mode gives them on a simulation without forces;
\* in particular after a switch from grid to radial there is no x or y force.
C11_OnlyCurrentModeForces ==
    forces # NoForces =>
        /\ DOMAIN forces = ModeForces(layout)
        /\ forces = applyLayoutForces(NoForces, layout, viewport.w, viewport.h, data)
        /\ (switchedFrom = "grid" /\ layout = "radial") =>
              "x" \notin DOMAIN forces /\ "y" \notin DOMAIN forces

\* C11 witness: the layout has just been switched from grid to radial.
C11_Witness ==
    /\ switchedFrom = "grid"
    /\ layout = "radial"
    /\ "radial" \in DOMAIN forces

\* C12: a step that changes the layout sets alpha to 1, leaves the timer
\* running and changes no node's x, y, fx or fy.
C12_SwitchStep ==
    layout' # layout =>
        /\ alpha' = 10
        /\ timer' = TRUE
        /\ position' = position

C12_SwitchKeepsPositions == [][C12_SwitchStep]_vars

\* C12 witness: the layout has just been switched while a drag was in
\* progress: its node is still pinned, away from where it is.
C12_Witness ==
    /\ switchedFrom # "none"
    /\ alpha = 10
    /\ timer
    /\ \E g \in DOMAIN gestures :
          /\ position[gestures[g]].fx # Null
          /\ position[gestures[g]].fx # At(position[gestures[g]].x)

Pinned(n) == position[n].fx # Null /\ position[n].fy # Null

Released(n) == position[n].fx = Null /\ position[n].fy = Null

Dragging(n) == \E g \in DOMAIN gestures : gestures[g] = n

C15_DragStep ==
    \A n \in DOMAIN position :
        /\ (\E g \in (DOMAIN gestures') \ (DOMAIN gestures) : gestures'[g] = n) =>
              /\ position'[n].fx = At(position[n].x)
              /\ position'[n].fy = At(position[n].y)
        /\ (\E g \in (DOMAIN gestures) \ (DOMAIN gestures') : gestures[g] = n) =>
              /\ position'[n].fx = Null
              /\ position'[n].fy = Null
        /\ (gestures' = gestures /\ position'[n].fx # position[n].fx) =>
              \E p \in Points : position'[n].fx = At(p.x) /\ position'[n].fy = At(p.y)

C15_PinnedIffDragging ==
    \A n \in DOMAIN position :
        /\ Dragging(n) => Pinned(n)
        /\ ~Dragging(n) => Released(n)

\* C15: a drag start pins the node at its own position, a drag event at the
\* pointer's, a drag end unpins it; and in every state a node is pinned when
\* a drag on it is in progress and unpinned (fx = fy = null) when none is.
C15_PinnedWhileDragged == [][C15_DragStep]_vars /\ []C15_PinnedIffDragging

(***************************************************************************)
(* parseAttributes on its own: one pair label=<value> is drawn, the value  *)
(* bare or in quotes, then parseAttributes is called on it.                *)
(***************************************************************************)
\* the longest value text assembled, quotes not counted, in characters
MaxValueLen == 3

ValueAlphabet == {"4", "0", ".", "-", " ", "s", "="}

RECURSIVE ValueBodies(_)
ValueBodies(n) ==
    IF n = 0 THEN {<<>>}
    ELSE ValueBodies(n - 1) \cup
         {Append(b, c) : b \in ValueBodies(n - 1), c \in ValueAlphabet}

\* the value texts: the assembled ones and those the specification names
ValueTexts ==
    ValueBodies(MaxValueLen) \cup
        { <<"4", " ", "s", "e", "c">>, tAEqualsB, tPrichina }

InQuotes(text) == <<Quote>> \o text \o <<Quote>>

\* the values as written in the block: bare (when not empty) or in quotes
WrittenValues == (ValueTexts \ {<<>>}) \cup {InQuotes(t) : t \in ValueTexts}

PairText(written) == kLabel \o <<"=">> \o written

AttrInit ==
    /\ ParserIdle
    /\ ColorIdle
    /\ SizeIdle
    /\ CanvasIdle
    /\ PanelIdle
    /\ attrArg \in {PairText(v) : v \in WrittenValues}
    /\ attrResult = <<>>

\* the call: attrResult holds the returned object
ParseAttributes ==
    /\ attrResult = <<>>
    /\ attrResult' = <<parseAttributes(attrArg)>>
    /\ UNCHANGED <<attrArg, parseVars, colorVars, sizeVars, canvasVars, panelVars>>

AttrSpec == AttrInit /\ [][ParseAttributes]_vars

\* the value as written in the pair given to parseAttributes
WrittenValue == trim(SubSeq(attrArg, Len(kLabel) + 2, Len(attrArg)))

\* the written value without its surrounding quotes
Stripped(v) ==
    IF Len(v) >= 2 /\ Head(v) = Quote /\ v[Len(v)] = Quote
    THEN SubSeq(v, 2, Len(v) - 1)
    ELSE v

AllDigits(t) == t # <<>> /\ \A i \in 1..Len(t) : IsDigit(t[i])

\* t is the serialisation of a number: an optional minus sign, an integer
\* part without leading zeros, and an optional fraction that does not end in
\* 0; not "-0"
IsSerialisedNumber(t) ==
    \E sign \in {0, 1}, dot \in 0..(Len(t) + 1) :
        LET int  == SubSeq(t, sign + 1, IF dot = 0 THEN Len(t) ELSE dot - 1)
            frac == IF dot = 0 THEN <<>> ELSE SubSeq(t, dot + 1, Len(t))
        IN  /\ sign = 1 => (t # <<>> /\ t[1] = "-")
            /\ dot # 0 => (dot \in 1..Len(t) /\ t[dot] = ".")
            /\ AllDigits(int)
            /\ Len(int) > 1 => int[1] # "0"
            /\ dot # 0 => (AllDigits(frac) /\ frac[Len(frac)] # "0")
            /\ sign = 1 => \E i \in 1..Len(t) : IsDigit(t[i]) /\ t[i] # "0"

\* the number a serialisation stands for
NumberOf(t) ==
    LET neg    == t[1] = "-"
        digits == SelectSeq(t, IsDigit)
        dots   == {i \in 1..Len(t) : t[i] = "."}
        e      == IF dots = {} THEN 0 ELSE Len(t) - Max(dots)
        m      == DigitsToNat(digits)
    IN  Num(IF neg THEN 0 - m ELSE m, e)

\* C16: the value stored for a pair is the number its text stands for when
\* the text, without its surrounding quotes, is exactly a number's
\* serialisation, and otherwise that text, as a string.
C16_NumberExactlyWhenRoundTrips ==
    (attrResult # <<>> /\ WrittenValue # <<>>) =>
        LET text == Stripped(WrittenValue)
        IN  /\ DOMAIN attrResult[1] = {kLabel}
            /\ attrResult[1][kLabel] =
                  IF IsSerialisedNumber(text) THEN NumberOf(text) ELSE Str(text)

(***************************************************************************)
(* The layouts.                                                            *)
(***************************************************************************)
Configured(mode) == forces # NoForces /\ layout = mode

\* the display size of the i-th node
SizeOf(i) == getSizeForNode(data[i])

\* the ring of a display size, by the thresholds 40, 30 and 20 (in tenths:
\* 400, 300, 200)
RingOf(size) ==
    IF size.t # "num" THEN 800
    ELSE IF Scaled(size, 1) > 400 THEN 0
    ELSE IF Scaled(size, 1) > 300 THEN 250
    ELSE IF Scaled(size, 1) > 200 THEN 500
    ELSE 800

\* C17: in radial mode the target radius of every node is the ring of its
\* display size (0 above 40, 250 above 30 up to 40, 500 above 20 up to 30,
\* 800 otherwise), and of two nodes the one with the larger display size
\* never has the larger radius.
C17_RadialRadiusBySizeTier ==
    Configured("radial") =>
        LET radius == forces["radial"].radius
        IN  /\ DOMAIN radius = 1..Len(data)
            /\ \A i \in 1..Len(data) : radius[i] = Num(RingOf(SizeOf(i)), 0)
            /\ \A i, j \in 1..Len(data) :
                  (/\ SizeOf(i).t = "num"
                   /\ SizeOf(j).t = "num"
                   /\ Scaled(SizeOf(i), 1) > Scaled(SizeOf(j), 1)) =>
                      radius[i].m <= radius[j].m

\* C17 witness: radial mode over three nodes of sizes 45, 40 and 30: the
\* first in the center, the two on the thresholds on the rings 250 and 500.
C17_Witness ==
    /\ Configured("radial")
    /\ Len(data) = 3
    /\ SizeOf(1) = Num(45, 0) /\ forces["radial"].radius[1] = Num(0, 0)
    /\ SizeOf(2) = Num(40, 0) /\ forces["radial"].radius[2] = Num(250, 0)
    /\ SizeOf(3) = Num(30, 0) /\ forces["radial"].radius[3] = Num(500, 0)

\* the number of columns of the grid of n nodes: the least whole number not
\* below the square root of 1.5 * n
ColumnsFor(n) == CHOOSE c \in 1..(n + 1) : 2 * c * c >= 3 * n /\ 2 * (c - 1) * (c - 1) < 3 * n

\* C18: in grid mode the node at index i (from 0) is aimed at the cell of
\* column i mod cols and row floor(i / cols) of a grid of 120-wide cells whose
\* place depends on the viewport and the node count only, cols being
\* ceil(sqrt(1.5 * N)); distinct nodes have distinct target points and the
\* rows used are no more than cols.
C18_GridCellByIndex ==
    Configured("grid") =>
        LET N    == Len(data)
            cols == ColumnsFor(N)
            x    == [i \in 0..(N - 1) |-> Scaled(forces["x"].target[i + 1], 1)]
            y    == [i \in 0..(N - 1) |-> Scaled(forces["y"].target[i + 1], 1)]
        IN  /\ 2 * x[0] = 10 * viewport.w - 1200 * cols
            /\ 2 * cols * y[0] = 10 * cols * viewport.h - 1200 * N
            /\ \A i \in 0..(N - 1) :
                  /\ x[i] = x[0] + 1200 * (i % cols)
                  /\ y[i] = y[0] + 1200 * (i \div cols)
            /\ \A i, j \in 0..(N - 1) : i # j => <<x[i], y[i]>> # <<x[j], y[j]>>
            /\ Cardinality({y[i] : i \in 0..(N - 1)}) <= cols
            /\ Cardinality({x[i] : i \in 0..(N - 1)}) <= cols

\* C18 witness: grid mode over eight nodes: four columns, the fifth node
\* starts the second row under the first.
C18_Witness ==
    /\ Configured("grid")
    /\ Len(data) = 8
    /\ forces["x"].target[5] = forces["x"].target[1]
    /\ forces["y"].target[5] = Plus(forces["y"].target[1], Num(120, 0))
    /\ forces["x"].target[4] = Plus(forces["x"].target[1], Num(360, 0))

\* the fill color of the i-th node, a node without one counting as '#ccc'
FillColor(i) ==
    IF Get(data[i], kFillcolor) = Undefined THEN DefaultFill
    ELSE Get(data[i], kFillcolor)

FillColors == {FillColor(i) : i \in 1..Len(data)}

\* the slot of the i-th node's fill color: the number of distinct fill colors
\* that appear before its first appearance
SlotOf(i) ==
    LET first == Min({j \in 1..Len(data) : FillColor(j) = FillColor(i)})
    IN  Cardinality({FillColor(j) : j \in 1..(first - 1)})

\* the point of slot k of count evenly spaced slots of the circle of radius
\* 0.35 * min(w, h) around the middle of the viewport
SlotPoint(k, count) ==
    [cx |-> Half(Num(viewport.w, 0)), cy |-> Half(Num(viewport.h, 0)),
     radius |-> Times(Num(35, 2), Num(Min({viewport.w, viewport.h}), 0)),
     i |-> k, groupCount |-> count]

\* the point the i-th node is pulled toward
TargetOf(i) == <<forces["x"].target[i], forces["y"].target[i]>>

C20_EndToEndExample ==
    (pc = "returned" /\ input = EndToEndExample) =>
        /\ Len(graph.nodes) = 2
        /\ {Get(graph.nodes[i], kId) : i \in 1..2} = {Str(idX), Str(idY)}
        /\ \A i \in 1..2 : Get(graph.nodes[i], kFillcolor) = Str(tWhite)
        /\ graph.links = <<[source |-> Str(idX), target |-> Str(idY),
                            label |-> Str(tPrichina)]>>
        /\ getEdgeColor(graph.links[1].label) = "#10b981"
        /\ \E k \in 1..Len(EDGE_LEGEND) :
              EDGE_LEGEND[k] = [color |-> "#10b981", label |-> "attribute"]

\* C20 witness: parseDotData has returned from the example text, with two
\* nodes and one edge.
C20_Witness ==
    /\ pc = "returned"
    /\ input = EndToEndExample
    /\ Len(graph.nodes) = 2
    /\ Len(graph.links) = 1
    /\ getEdgeColor(graph.links[1].label) = "#10b981"

(***************************************************************************)
(* Edge lines and the nodes already in the map.                            *)
(***************************************************************************)
\* C21: a line leaves every node already in the node map as it was, unless it
\* is a node-declaration line for that node's identifier; in particular an
\* edge line changes no node that is already in the map, whatever the active
\* style has become since the node was created.
C21_EdgeStep ==
    \A i \in 1..Len(Statements) :
        Consumes(i) =>
            \A j \in 1..Len(nodes) :
                LET x == nodes[j].key
                IN  ~(IsNodeDeclaration(Statements[i]) /\ Statements[i].a = x) =>
                        /\ MapHas(nodes', x)
                        /\ MapGet(nodes', x) = nodes[j].val

C21_EdgeKeepsExistingNodes == [][C21_EdgeStep]_vars

\* C21 witness: X was declared, the active color changed, and an edge line
\* from X to the new node Y came last: Y has the active color, X the color
\* it was created with.
C21_Witness ==
    /\ Len(input) = 3
    /\ IsNodeDeclaration(Statements[input[1]])
    /\ IsStyleDirective(Statements[input[2]])
    /\ Statements[input[3]] = EdgeStmt(idX, idY, <<>>)
    /\ MapHas(nodes, idX)
    /\ MapHas(nodes, idY)
    /\ MapGet(nodes, idY)[kColor] = currentNodeStyle[kColor]
    /\ MapGet(nodes, idX)[kColor] = SeedStyle[kColor]
    /\ SeedStyle[kColor] # currentNodeStyle[kColor]

(***************************************************************************)
(* The application: App's selection state, the side panel and the          *)
(* canvas's highlighting.  A user event is one action: the handler, the     *)
(* render that React runs when state changed, and the effects whose         *)
(* dependencies changed.  A state setter called with the value the state    *)
(* already has causes no render and no effect.                              *)
(***************************************************************************)
\* the most links of a graph shown
MaxLinks == 2

idZ == <<"Z">>

\* null
JsNull == [t |-> "null", s |-> <<>>, m |-> 0, e |-> 0]

\* a reference to the object o (typeof is 'object')
Ref(o) == [t |-> "object", o |-> o]

\* the node lists shown: three nodes, and three nodes of which the third
\* has the id of the first
ShownNodeLists ==
    { << (kId :> Str(idX)) @@ (kLabel :> Str(idX)),
         (kId :> Str(idY)) @@ (kLabel :> Str(idY)),
         (kId :> Str(idZ)) @@ (kLabel :> Str(idZ)) >>,
      << (kId :> Str(idX)) @@ (kLabel :> Str(idX)),
         (kId :> Str(idY)) @@ (kLabel :> Str(idY)),
         (kId :> Str(idX)) @@ (kLabel :> Str(idZ)) >> }

IdsOf(ns) == {Get(ns[i], kId) : i \in 1..Len(ns)}

\* the links between nodes of the list, as parseDotData returns them: source
\* and target are id strings, the label is a string
ShownLinks(ns) ==
    { [source |-> a, target |-> b, label |-> l] :
          a \in IdsOf(ns), b \in IdsOf(ns), l \in {Str(<<>>), Str(tPrichina)} }

RECURSIVE SeqsUpTo(_, _)
SeqsUpTo(S, n) ==
    IF n = 0 THEN {<<>>}
    ELSE SeqsUpTo(S, n - 1) \cup
         {Append(q, x) : q \in SeqsUpTo(S, n - 1), x \in S}

\* the graphs shown: every endpoint of a link is the id of a node
ShownGraphs ==
    UNION { { [nodes |-> ns, links |-> ls] : ls \in SeqsUpTo(ShownLinks(ns), MaxLinks) } :
                ns \in ShownNodeLists }

\* d3.forceLink(data.links).id(d => d.id), initialized: source and target of
\* every link become the node with that id (of several, the last)
NodeById(ns, id) ==
    ns[Max({i \in 1..Len(ns) : Get(ns[i], kId) = id})]

ResolvedLinks(lnks, ns) ==
    [k \in 1..Len(lnks) |->
        [source |-> Ref(NodeById(ns, lnks[k].source)),
         target |-> Ref(NodeById(ns, lnks[k].target)),
         label  |-> lnks[k].label]]

\* typeof e === 'object' ? e.id : e
EndpointId(e) == IF e.t = "object" THEN Get(e.o, kId) ELSE e

\* nodes.find(n => n.id === id)
find(ns, id) ==
    IF \E i \in 1..Len(ns) : Get(ns[i], kId) = id
    THEN Ref(ns[Min({i \in 1..Len(ns) : Get(ns[i], kId) = id})])
    ELSE Undefined

\* Touches with a bug: only the links that leave the selected node count
Touches_SourceOnly(link, selected) == EndpointId(link.source) = selected

\* s === selectedNodeId || t === selectedNodeId
Touches(link, selected) ==
    EndpointId(link.source) = selected \/ EndpointId(link.target) = selected

\* the entry of the connection list for a link
Connection(link, ns, selected) ==
    [relation  |-> link.label,
     node      |-> find(ns, IF EndpointId(link.source) = selected
                            THEN EndpointId(link.target)
                            ELSE EndpointId(link.source)),
     direction |-> IF EndpointId(link.source) = selected THEN "outgoing" ELSE "incoming"]

Filter(lnks, selected) == SelectSeq(lnks, LAMBDA l : Touches(l, selected))

\* const neighbors = useMemo(...)
Neighbors(lnks, ns, selected) ==
    IF ~Truthy(selected) THEN <<>>
    ELSE [k \in 1..Len(Filter(lnks, selected)) |->
             Connection(Filter(lnks, selected)[k], ns, selected)]

\* highlightedNodesRef.current after the highlighting effect
Highlighted(lnks, selected) ==
    IF Truthy(selected)
    THEN {selected}
           \cup {EndpointId(lnks[k].target) :
                    k \in {h \in 1..Len(lnks) : EndpointId(lnks[h].source) = selected}}
           \cup {EndpointId(lnks[k].source) :
                    k \in {h \in 1..Len(lnks) : EndpointId(lnks[h].target) = selected}}
    ELSE {}

\* handleNodeSelect(node), node a reference or null, and what React runs
\* after it: when the id differs from the state, the render (the connection
\* list), the highlighting effect and the panel's auto-open effect
handleNodeSelect(node) ==
    /\ selectedNodeId' = (IF node.t = "object" THEN Get(node.o, kId) ELSE JsNull)
    /\ IF selectedNodeId' = selectedNodeId
       THEN UNCHANGED <<isVisible, neighbors, highlightedNodes>>
       ELSE /\ neighbors' = Neighbors(appGraphData.links, appGraphData.nodes, selectedNodeId')
            /\ highlightedNodes' = Highlighted(appGraphData.links, selectedNodeId')
            /\ isVisible' = (IF Truthy(selectedNodeId') THEN TRUE ELSE isVisible)

Others == <<parseVars, colorVars, attrVars, sizeVars, canvasVars>>

\* the first commit: the canvas creates the simulation, which resolves the
\* links, and its highlighting effect runs with no selection
Mount ==
    /\ ~mounted
    /\ Len(appGraphData.nodes) # 0
    /\ mounted' = TRUE
    /\ appGraphData' = [nodes |-> appGraphData.nodes,
                        links |-> ResolvedLinks(appGraphData.links, appGraphData.nodes)]
    /\ highlightedNodes' = Highlighted(appGraphData.links, selectedNodeId)
    /\ UNCHANGED <<selectedNodeId, isVisible, neighbors, lastEvent, Others>>

\* a click on the n-th node of the graph: onNodeClick(d)
NodeClick(n) ==
    /\ mounted
    /\ handleNodeSelect(Ref(appGraphData.nodes[n]))
    /\ lastEvent' = "click"
    /\ UNCHANGED <<appGraphData, mounted, Others>>

\* the panel's collapse button
CollapseClick ==
    /\ mounted
    /\ isVisible
    /\ isVisible' = FALSE
    /\ lastEvent' = "other"
    /\ UNCHANGED <<appGraphData, mounted, selectedNodeId, neighbors, highlightedNodes, Others>>

\* the floating button of the collapsed panel
OpenClick ==
    /\ mounted
    /\ ~isVisible
    /\ isVisible' = TRUE
    /\ lastEvent' = "other"
    /\ UNCHANGED <<appGraphData, mounted, selectedNodeId, neighbors, highlightedNodes, Others>>

\* the panel shows the selected node's details
ShowsDetails == isVisible /\ find(appGraphData.nodes, selectedNodeId) # Undefined

\* "Back to full view"
BackClick ==
    /\ mounted
    /\ ShowsDetails
    /\ handleNodeSelect(JsNull)
    /\ lastEvent' = "other"
    /\ UNCHANGED <<appGraphData, mounted, Others>>

\* a click on the k-th entry of the connection list
ConnectionClick(k) ==
    /\ mounted
    /\ ShowsDetails
    /\ k \in DOMAIN neighbors
    /\ IF neighbors[k].node # Undefined
       THEN handleNodeSelect(neighbors[k].node)
       ELSE UNCHANGED <<selectedNodeId, isVisible, neighbors, highlightedNodes>>
    /\ lastEvent' = "other"
    /\ UNCHANGED <<appGraphData, mounted, Others>>

\* a click on a search result, the n-th node
SearchResultClick(n) ==
    /\ mounted
    /\ isVisible
    /\ handleNodeSelect(Ref(appGraphData.nodes[n]))
    /\ lastEvent' = "other"
    /\ UNCHANGED <<appGraphData, mounted, Others>>

PanelInit ==
    /\ ParserIdle
    /\ ColorIdle
    /\ AttrIdle
    /\ SizeIdle
    /\ CanvasIdle
    /\ appGraphData \in ShownGraphs
    /\ mounted = FALSE
    /\ selectedNodeId = JsNull
    /\ isVisible = TRUE
    /\ neighbors = <<>>
    /\ highlightedNodes = {}
    /\ lastEvent = "none"

PanelNext ==
    \/ Mount
    \/ \E n \in 1..Len(appGraphData.nodes) : NodeClick(n)
    \/ CollapseClick
    \/ OpenClick
    \/ BackClick
    \/ \E k \in DOMAIN neighbors : ConnectionClick(k)
    \/ \E n \in 1..Len(appGraphData.nodes) : SearchResultClick(n)

PanelSpec == PanelInit /\ [][PanelNext]_vars

(***************************************************************************)
(* The connection list of the side panel and the canvas's highlighting.    *)
(***************************************************************************)
\* the positions, in the edge list, of the edges that start or end at S
IncidentEdges(S) ==
    {k \in 1..Len(appGraphData.links) :
        \/ EndpointId(appGraphData.links[k].source) = S
        \/ EndpointId(appGraphData.links[k].target) = S}

\* the j-th of them in edge-list order
IncidentEdge(S, j) ==
    CHOOSE k \in IncidentEdges(S) :
        Cardinality({h \in IncidentEdges(S) : h <= k}) = j

\* the ids of the nodes the connection list names
ListedIds == {Get(neighbors[j].node.o, kId) : j \in 1..Len(neighbors)}

\* C22: with a node S selected the connection list has exactly one entry per
\* edge that starts or ends at S, in edge-list order; the entry of an edge
\* that starts at S (a self-loop included) is outgoing and names the edge's
\* target, the entry of any other is incoming and names the edge's source,
\* and it carries the edge's label; the ids named, together with S, are the
\* nodes the canvas keeps highlighted.  With no selection the list is empty.
C22_ConnectionsOfSelection ==
    IF selectedNodeId = JsNull
    THEN neighbors = <<>>
    ELSE /\ Len(neighbors) = Cardinality(IncidentEdges(selectedNodeId))
         /\ \A j \in 1..Len(neighbors) :
               LET link == appGraphData.links[IncidentEdge(selectedNodeId, j)]
               IN  /\ neighbors[j].relation = link.label
                   /\ neighbors[j].node.t = "object"
                   /\ IF EndpointId(link.source) = selectedNodeId
                      THEN /\ neighbors[j].direction = "outgoing"
                           /\ Get(neighbors[j].node.o, kId) = EndpointId(link.target)
                      ELSE /\ neighbors[j].direction = "incoming"
                           /\ Get(neighbors[j].node.o, kId) = EndpointId(link.source)
         /\ ListedIds \cup {selectedNodeId} = highlightedNodes

\* node X is selected by a click in a graph whose edges are a self-loop on X
\* and then an edge from Y to X
C22_Witness ==
    /\ mounted
    /\ lastEvent = "click"
    /\ selectedNodeId = Str(idX)
    /\ Len(appGraphData.links) = 2
    /\ EndpointId(appGraphData.links[1].source) = Str(idX)
    /\ EndpointId(appGraphData.links[1].target) = Str(idX)
    /\ EndpointId(appGraphData.links[2].source) = Str(idY)
    /\ EndpointId(appGraphData.links[2].target) = Str(idX)
    /\ Len(neighbors) = 2
    /\ neighbors[1].direction = "outgoing"
    /\ neighbors[2].direction = "incoming"
    /\ highlightedNodes = {Str(idX), Str(idY)}

(***************************************************************************)
(* The panel's visibility after a click on a node of the graph.            *)
(***************************************************************************)
\* C23: after a click on a node of the graph the side panel is visible,
\* whatever collapse, open, select and deselect events came before it: the
\* click re-opens a collapsed panel, also when the node clicked is the one
\* already selected.
C23_ClickShowsSidebar == lastEvent = "click" => isVisible

(***************************************************************************)
(* The arrowhead markers: the canvas defines one per legend entry and      *)
(* every link refers to the marker of its color.                           *)
(***************************************************************************)
\* the characters of the color string c (a string that is none of the
\* legend's colors stands as one token)
Chars(c) ==
    CASE c = "#3b82f6" -> <<"#", "3", "b", "8", "2", "f", "6">>
         [] c = "#a855f7" -> <<"#", "a", "8", "5", "5", "f", "7">>
         [] c = "#f97316" -> <<"#", "f", "9", "7", "3", "1", "6">>
         [] c = "#10b981" -> <<"#", "1", "0", "b", "9", "8", "1">>
         [] c = "#ef4444" -> <<"#", "e", "f", "4", "4", "4", "4">>
         [] c = "#64748b" -> <<"#", "6", "4", "7", "4", "8", "b">>
         [] OTHER -> <<c>>

\* s.replace(ch, ''): the first occurrence of the character ch is removed
replace(s, ch) ==
    IF \E i \in 1..Len(s) : s[i] = ch
    THEN LET i == Min({k \in 1..Len(s) : s[k] = ch})
         IN  SubSeq(s, 1, i - 1) \o SubSeq(s, i + 1, Len(s))
    ELSE s

tArrowhead == <<"a", "r", "r", "o", "w", "h", "e", "a", "d", "-">>

\* MarkerId with a bug: the '#' stays in the id
MarkerId_KeepsHash(cat) == tArrowhead \o Chars(cat.color)

\* the id of the marker defined for a legend entry
MarkerId(cat) == tArrowhead \o replace(Chars(cat.color), "#")

\* the ids of the markers in <defs>
DefinedMarkers == {MarkerId(EDGE_LEGEND[i]) : i \in 1..Len(EDGE_LEGEND)}

\* url(#id), and the id it refers to
Url(id) == <<"u", "r", "l", "(", "#">> \o id \o <<")">>

\* the marker-end attribute of a link with the label lbl
markerEnd(lbl) == Url(tArrowhead \o replace(Chars(getEdgeColor(lbl)), "#"))

LegendColors == {EDGE_LEGEND[i].color : i \in 1..Len(EDGE_LEGEND)}

\* every legend color is what getEdgeColor returns for some label
EveryLegendColorReturned ==
    \A c \in LegendColors : \E l \in LabelInputs : getEdgeColor(l) = c

\* C24: every color getEdgeColor returns is the color of a legend entry, so
\* the marker a link refers to, arrowhead-<color>, is one of the markers the
\* canvas defines; and every legend color is returned for some label.
C24_MarkersCoverColors ==
    /\ color # "none" =>
          /\ color \in LegendColors
          /\ \E id \in DefinedMarkers : markerEnd(label) = Url(id)
    /\ EveryLegendColorReturned

\* a label of the last category has been classified: its link refers to
\* the marker arrowhead-ef4444
C24_Witness ==
    /\ color = "#ef4444"
    /\ label # Undefined
    /\ markerEnd(label) = <<"u", "r", "l", "(", "#", "a", "r", "r", "o", "w", "h", "e", "a", "d", "-", "e", "f", "4", "4", "4", "4", ")">>

(***************************************************************************)
(* The alpha target under simultaneous drag gestures and layout switches.  *)
(***************************************************************************)
DragsInProgress == Cardinality(DOMAIN gestures)

C25_TargetFollowsDrags == alphaTarget = (IF DragsInProgress > 0 THEN 3 ELSE 0)

C25_TargetStep ==
    alphaTarget' # alphaTarget =>
        \/ DragsInProgress = 0 /\ DragsInProgress' = 1 /\ alphaTarget' = 3
        \/ DragsInProgress = 1 /\ DragsInProgress' = 0 /\ alphaTarget' = 0

\* C25: however the start and end events of simultaneous drag gestures and
\* the layout switches interleave, the alpha target is 0.3 (3 tenths) while
\* at least one drag is in progress and 0 while none is; it changes only
\* when the first concurrent drag starts and when the last one ends.
C25_AlphaTargetFollowsDrags == []C25_TargetFollowsDrags /\ [][C25_TargetStep]_vars

\* two gestures are in progress and the layout has just been switched
C25_Witness ==
    /\ DragsInProgress = 2
    /\ switchedFrom # "none"
    /\ alphaTarget = 3

====
